---- MODULE Spec2Model ----
(***************************************************************************)
(* State-machine model of the AIVory Monitor Node.js agent:                *)
(*   - BackendConnection  (src/src/transport/backend-connection.ts 27-323) *)
(*   - InspectorManager   (src/src/transport/backend-connection.ts 361-)   *)
(*   - the agent life cycle of src/src/index.ts (init / shutdown)          *)
(*                                                                         *)
(* The host is single-threaded: every event handler, timer callback and    *)
(* promise continuation runs to completion, so each is one action.  The    *)
(* environment (the collector behind the WebSocket, the V8 debugger        *)
(* behind the inspector session, timers, signals) is nondeterministic.     *)
(* The model follows one agent instance: one init() and the objects it     *)
(* constructs.                                                             *)
(***************************************************************************)
EXTENDS Integers, Sequences, FiniteSets, TLC

(***************************************************************************)
(* Bounds of the model (not program constants).                            *)
(***************************************************************************)
MaxSockets == 3
MaxSends == 3
MaxQueueSends == 102
MaxPauses == 2
MaxScopes == 1
MaxInflight == 2
MaxTicks == 1
MaxInitCalls == 3
MaxCommands == 3

MaxInbound == 2
MaxHookEvents == 2
MaxCachePauses == 104
MaxCacheTicks == 2
MaxRatePauses == 53
MaxRateTicks == 3
RateTickMs == 600
MaxStringInput == 1001
MaxArrayInput == 101
MaxDepthInput == 2
MaxFetches == 8
TickMs == 1001

(***************************************************************************)
(* Program constants.                                                      *)
(***************************************************************************)
MaxReconnectAttemptsDefault == 10
ReconnectDelayBase == 1000
ReconnectDelayCap == 60000
MessageQueueLimit == 100
CacheMaxAge == 5000
LocalsCacheLimit == 100
DedupLimit == 100
RateLimitMax == 50
RateLimitWindow == 1000
HarvestTimeout == 100
StringCaptureLimit == 500
ArrayCaptureLimit == 100

VARIABLES
    \* ---- src/src/index.ts ----
    lifecycle,             \* "loaded" (before init), "running" (initialized), "stopped"
    initLog,               \* history: the outcome of every call of init, in order
    instances,             \* number of times init constructed the agent's objects
    processListeners,      \* number of shutdown-listener sets registered on process
    \* ---- ExceptionHandler fields ----
    installed,             \* this.installed
    hooks,                 \* uncaughtException listeners of the agent on process
    originalUncaughtException, \* this.originalUncaughtException is set
    hostListener,          \* the host has an uncaughtException listener on process
    \* ---- the exception pipeline and what is observed of it ----
    hook,                  \* the run of the exception pipeline (hook or capture)
    hostCalls,             \* history: calls of the host's listener for the last event
    harvestTimes,          \* history: the times at which exception harvests started
    captured,              \* history: the last string value captured
    \* ---- inbound breakpoint commands ----
    inbound,               \* history: the last frame or breakpoint command received
    \* ---- BackendConnection fields ----
    ws,                    \* this.ws: 0 = null, otherwise the index of a socket
    connected,             \* this.connected
    authenticated,         \* this.authenticated
    reconnectAttempts,     \* this.reconnectAttempts
    maxReconnectAttempts,  \* this.maxReconnectAttempts
    heartbeatInterval,     \* this.heartbeatInterval # null
    messageQueue,          \* this.messageQueue
    \* ---- environment of the transport ----
    sockets,               \* readyState of every WebSocket created so far
    reconnectTimers,       \* delays of the pending setTimeout(connect) timers
    backendUrlValid,       \* FALSE: new WebSocket(url) throws
    \* ---- observation of the transport ----
    wire,                  \* every ws.send(): <<[sock, msg]>> in order
    sendSeq,               \* number of send(type, payload) calls so far
    sentVia,               \* branch taken by the last send(): "socket" / "queue"
    queuedCount,           \* messages pushed to the buffer since it was last drained
    registeredOn,          \* sockets on which a `registered` reply was received
    \* ---- InspectorManager fields ----
    session,               \* this.session # null
    enabled,               \* this.enabled
    exceptionPauseEnabled, \* this.exceptionPauseEnabled
    breakpoints,           \* this.breakpoints: <<[backendId, id]>> in insertion order
    lastExceptionData,     \* this.lastExceptionData (NoLocals = null)
    sentExceptionFingerprints, \* the Set, in insertion order
    localsCache,           \* the Map, <<[key, locals, timestamp]>> in insertion order
    pendingCaptures,       \* keys of this.pendingCaptures
    rateLimitCount,        \* this.rateLimitCount
    rateLimitReset,        \* this.rateLimitReset
    \* ---- environment of the debugger session ----
    now,                   \* Date.now(), ms since construction
    inflight,              \* session.post requests whose callback has not run, FIFO
    v8Enabled,             \* the debugger agent is enabled for the session
    v8PauseOnExceptions,   \* the debugger pauses on exceptions
    v8Breakpoints,         \* breakpoint ids installed in the debugger
    hostPaused,            \* the host is stopped in the debugger
    \* ---- observation of the debugger session ----
    pause                  \* the latest Debugger.paused event and its handling

dvars == <<session, enabled, exceptionPauseEnabled, breakpoints, lastExceptionData,
           sentExceptionFingerprints, localsCache, pendingCaptures, rateLimitCount,
           rateLimitReset, now, inflight, v8Enabled, v8PauseOnExceptions,
           v8Breakpoints, hostPaused, pause>>

tvars == <<ws, connected, authenticated, reconnectAttempts, maxReconnectAttempts,
           heartbeatInterval, messageQueue, sockets, reconnectTimers,
           backendUrlValid, wire, sendSeq, sentVia, queuedCount, registeredOn>>

avars == <<lifecycle, initLog, instances, processListeners, installed, hooks,
           originalUncaughtException, hostListener, inbound>>

pvars == <<hook, hostCalls, harvestTimes, captured>>

vars == <<avars, pvars, tvars, dvars>>

Min(a, b) == IF a < b THEN a ELSE b

RECURSIVE Pow2(_)
Pow2(n) == IF n <= 0 THEN 1 ELSE 2 * Pow2(n - 1)

SocketIds == 1..Len(sockets)

RegisterMsg == [type |-> "register", seq |-> 0, payload |-> 0]

(***************************************************************************)
(* WebSocket.OPEN test of send() and handleRegistered().                   *)
(***************************************************************************)
WsOpen == ws # 0 /\ sockets[ws] = "OPEN"

(***************************************************************************)
(* The transport states of the specification, read off the fields.         *)
(***************************************************************************)
Registered == WsOpen /\ authenticated

(***************************************************************************)
(* The delay computed from 2^attempt instead of 2^(attempt - 1).            *)
(***************************************************************************)
ReconnectDelayOf_Doubled(attempt) ==
    Min(ReconnectDelayBase * Pow2(attempt), ReconnectDelayCap)

(***************************************************************************)
(* BackendConnection.scheduleReconnect (lines 302-318).  The delay of the  *)
(* timer is kept with the timer.                                           *)
(***************************************************************************)
ReconnectDelayOf(attempt) ==
    Min(ReconnectDelayBase * Pow2(attempt - 1), ReconnectDelayCap)

(***************************************************************************)
(* scheduleReconnect with the attempt cap compared by > instead of >=.     *)
(***************************************************************************)
scheduleReconnectOn_OffByOne(timers) ==
    IF reconnectAttempts > maxReconnectAttempts
    THEN /\ reconnectAttempts' = reconnectAttempts
         /\ reconnectTimers' = timers
    ELSE /\ reconnectAttempts' = reconnectAttempts + 1
         /\ reconnectTimers' = Append(timers, ReconnectDelayOf(reconnectAttempts + 1))

(***************************************************************************)
(* scheduleReconnect, run with `timers` pending.                           *)
(***************************************************************************)
scheduleReconnectOn(timers) ==
    IF reconnectAttempts >= maxReconnectAttempts
    THEN /\ reconnectAttempts' = reconnectAttempts
         /\ reconnectTimers' = timers
    ELSE /\ reconnectAttempts' = reconnectAttempts + 1
         /\ reconnectTimers' = Append(timers, ReconnectDelayOf(reconnectAttempts + 1))

scheduleReconnect == scheduleReconnectOn(reconnectTimers)

(***************************************************************************)
(* BackendConnection.connect (lines 46-93): the synchronous part, run with *)
(* `timers` pending.  The socket's event handlers are the actions OnOpen,  *)
(* OnMessage..., OnClose.                                                  *)
(***************************************************************************)
connectOn(timers) ==
    IF connected
    THEN /\ reconnectTimers' = timers
         /\ UNCHANGED <<ws, sockets, reconnectAttempts>>
    ELSE IF backendUrlValid
         THEN /\ sockets' = Append(sockets, "CONNECTING")
              /\ ws' = Len(sockets) + 1
              /\ reconnectTimers' = timers
              /\ UNCHANGED reconnectAttempts
         ELSE /\ scheduleReconnectOn(timers)
              /\ UNCHANGED <<ws, sockets>>

connect == connectOn(reconnectTimers)

(***************************************************************************)
(* WebSocket.close() of the ws library: an open socket starts the closing  *)
(* handshake, a connecting one aborts its handshake (readyState CLOSING in *)
(* both cases, but only a socket that was open can still deliver frames);  *)
(* the 'close' event follows later.                                        *)
(***************************************************************************)
CloseCall(readyState) ==
    CASE readyState = "OPEN" -> "CLOSING"
      [] readyState = "CONNECTING" -> "ABORTED"
      [] OTHER -> readyState

(***************************************************************************)
(* BackendConnection.disconnect (lines 98-108).                            *)
(***************************************************************************)
disconnect ==
    /\ heartbeatInterval' = FALSE
    /\ sockets' = IF ws # 0 THEN [sockets EXCEPT ![ws] = CloseCall(@)] ELSE sockets
    /\ ws' = 0
    /\ connected' = FALSE
    /\ authenticated' = FALSE

(***************************************************************************)
(* The queue limit enforced by dropping the newest message instead of the  *)
(* oldest.                                                                 *)
(***************************************************************************)
Enqueue_DropsNewest(queue, msg) ==
    LET pushed == Append(queue, msg)
    IN  IF Len(pushed) > MessageQueueLimit
        THEN SubSeq(pushed, 1, MessageQueueLimit)
        ELSE pushed

(***************************************************************************)
(* The "limit queue size" part of send (lines 175-183): push, then shift   *)
(* once when the length exceeds the limit.                                 *)
(***************************************************************************)
Enqueue(queue, msg) ==
    LET pushed == Append(queue, msg)
    IN  IF Len(pushed) > MessageQueueLimit THEN Tail(pushed) ELSE pushed

(***************************************************************************)
(* send that writes to any open socket, registered or not.                 *)
(***************************************************************************)
send_IgnoresRegistration(type, payload) ==
    LET msg == [type |-> type, seq |-> sendSeq + 1, payload |-> payload]
    IN  /\ sendSeq' = sendSeq + 1
        /\ IF ws # 0 /\ sockets[ws] = "OPEN"
           THEN /\ wire' = Append(wire, [sock |-> ws, msg |-> msg])
                /\ sentVia' = "socket"
                /\ UNCHANGED <<messageQueue, queuedCount>>
           ELSE /\ messageQueue' = Enqueue(messageQueue, msg)
                /\ sentVia' = "queue"
                /\ queuedCount' = queuedCount + 1
                /\ UNCHANGED wire

(***************************************************************************)
(* BackendConnection.send (lines 155-185).                                 *)
(***************************************************************************)
send(type, payload) ==
    LET msg == [type |-> type, seq |-> sendSeq + 1, payload |-> payload]
    IN  /\ sendSeq' = sendSeq + 1
        /\ IF ws # 0 /\ sockets[ws] = "OPEN" /\ authenticated
           THEN /\ wire' = Append(wire, [sock |-> ws, msg |-> msg])
                /\ sentVia' = "socket"
                /\ UNCHANGED <<messageQueue, queuedCount>>
           ELSE /\ messageQueue' = Enqueue(messageQueue, msg)
                /\ sentVia' = "queue"
                /\ queuedCount' = queuedCount + 1
                /\ UNCHANGED wire

(***************************************************************************)
(* BackendConnection.authenticate (lines 187-211).                         *)
(***************************************************************************)
authenticate ==
    wire' = IF ws # 0 THEN Append(wire, [sock |-> ws, msg |-> RegisterMsg]) ELSE wire

(***************************************************************************)
(* The drain loop popping from the tail of the queue.                      *)
(***************************************************************************)
DrainWrites_Reversed(queue) ==
    IF WsOpen
    THEN [i \in 1..Len(queue) |-> [sock |-> ws, msg |-> queue[Len(queue) + 1 - i]]]
    ELSE <<>>

(***************************************************************************)
(* The drain loop of handleRegistered (lines 252-257): every queued        *)
(* message is shifted; it is written only if the socket is open.           *)
(***************************************************************************)
DrainWrites(queue) ==
    IF WsOpen THEN [i \in 1..Len(queue) |-> [sock |-> ws, msg |-> queue[i]]] ELSE <<>>

(***************************************************************************)
(* handleRegistered that writes the queued messages without removing them. *)
(***************************************************************************)
handleRegistered_KeepsQueue ==
    /\ authenticated' = TRUE
    /\ heartbeatInterval' = TRUE
    /\ wire' = wire \o DrainWrites(messageQueue)
    /\ messageQueue' = messageQueue
    /\ queuedCount' = queuedCount
    /\ UNCHANGED <<ws, sockets, connected, maxReconnectAttempts>>

(***************************************************************************)
(* BackendConnection.handleRegistered (lines 247-262); startHeartbeat      *)
(* (lines 284-293) leaves exactly one interval timer.                      *)
(***************************************************************************)
handleRegistered ==
    /\ authenticated' = TRUE
    /\ heartbeatInterval' = TRUE
    /\ wire' = wire \o DrainWrites(messageQueue)
    /\ messageQueue' = <<>>
    /\ queuedCount' = 0
    /\ UNCHANGED <<ws, sockets, connected, maxReconnectAttempts>>

(***************************************************************************)
(* BackendConnection.handleError (lines 264-272).                          *)
(***************************************************************************)
ErrorCodes == {"auth_error", "invalid_api_key", "rate_limited"}

IsAuthFailure_AnyCode(code) == code \in ErrorCodes

IsAuthFailure(code) == code = "auth_error" \/ code = "invalid_api_key"

handleError(code) ==
    IF IsAuthFailure(code)
    THEN /\ maxReconnectAttempts' = 0
         /\ disconnect
         /\ UNCHANGED <<wire, messageQueue, queuedCount>>
    ELSE UNCHANGED <<maxReconnectAttempts, heartbeatInterval, sockets, ws, connected,
                     authenticated, wire, messageQueue, queuedCount>>

(***************************************************************************)
(* ws 'open' handler (lines 58-65).                                        *)
(***************************************************************************)
OnOpen(s) ==
    /\ sockets[s] = "CONNECTING"
    /\ sockets' = [sockets EXCEPT ![s] = "OPEN"]
    /\ connected' = TRUE
    /\ reconnectAttempts' = 0
    /\ authenticate
    /\ UNCHANGED <<dvars, avars, pvars, ws, authenticated, maxReconnectAttempts, heartbeatInterval,
                   messageQueue, reconnectTimers, backendUrlValid, sendSeq, sentVia,
                   queuedCount, registeredOn>>

(***************************************************************************)
(* ws 'message' handler (lines 67-69) and handleMessage (lines 213-245).   *)
(* The ws library delivers frames that were received before the closing    *)
(* handshake completed, so a message can arrive on a socket that is        *)
(* CLOSING, also after disconnect().                                       *)
(***************************************************************************)
CanReceive(s) == sockets[s] \in {"OPEN", "CLOSING"}

OnMessageRegistered(s) ==
    /\ CanReceive(s)
    /\ handleRegistered
    /\ registeredOn' = registeredOn \cup {s}
    /\ UNCHANGED <<dvars, avars, pvars, reconnectAttempts, reconnectTimers, backendUrlValid,
                   sendSeq, sentVia>>

OnMessageError(s, code) ==
    /\ CanReceive(s)
    /\ handleError(code)
    /\ UNCHANGED <<dvars, avars, pvars, reconnectAttempts, reconnectTimers, backendUrlValid,
                   sendSeq, sentVia, queuedCount, registeredOn>>

(***************************************************************************)
(* The frames the collector can send: text that is not JSON, or a message  *)
(* with a type, with or without a payload, and the code of the payload of  *)
(* an `error`.                                                             *)
(***************************************************************************)
Frame(kind, hasPayload, code) == [kind |-> kind, hasPayload |-> hasPayload, code |-> code]

InboundFrames ==
    { Frame("not_json", FALSE, ""), Frame("unknown", TRUE, ""),
      Frame("unknown", FALSE, ""), Frame("registered", FALSE, ""),
      Frame("error", FALSE, ""), Frame("set_breakpoint", FALSE, ""),
      Frame("remove_breakpoint", FALSE, "") }
        \cup { Frame("error", TRUE, code) : code \in ErrorCodes }

(***************************************************************************)
(* BackendConnection.handleMessage (lines 213-245) on the transport:       *)
(* JSON.parse throws on text that is not JSON and handleError throws on    *)
(* an undefined payload (payload.code, line 265); the catch of             *)
(* handleMessage drops both.  The breakpoint cases emit to no listener and *)
(* the default case only logs.                                             *)
(***************************************************************************)
handleMessage(frame) ==
    IF frame.kind = "registered"
    THEN handleRegistered
    ELSE IF frame.kind = "error" /\ frame.hasPayload
    THEN handleError(frame.code)
    ELSE UNCHANGED <<maxReconnectAttempts, heartbeatInterval, sockets, ws, connected,
                     authenticated, wire, messageQueue, queuedCount>>

(***************************************************************************)
(* ws 'message' handler (lines 67-69) for any frame, with the frame kept   *)
(* as the last one received.                                               *)
(***************************************************************************)
OnMessage(s, frame, maxInbound) ==
    /\ CanReceive(s)
    /\ inbound.n < maxInbound
    /\ inbound' = [n |-> inbound.n + 1, type |-> frame.kind,
                   id |-> IF frame.hasPayload THEN frame.code ELSE "undefined",
                   line |-> 0]
    /\ handleMessage(frame)
    /\ registeredOn' = IF frame.kind = "registered" THEN registeredOn \cup {s}
                       ELSE registeredOn
    /\ UNCHANGED <<dvars, pvars, lifecycle, initLog, instances, processListeners,
                   installed, hooks, originalUncaughtException, hostListener,
                   reconnectAttempts, reconnectTimers, backendUrlValid, sendSeq,
                   sentVia>>

(***************************************************************************)
(* handleMessage, cases 'set_breakpoint' and 'remove_breakpoint' (lines    *)
(* 229-234), with handleSetBreakpoint (lines 274-277) and                  *)
(* handleRemoveBreakpoint (lines 279-282): the payload is emitted as an    *)
(* event of the BackendConnection.  No listener is ever added to the       *)
(* BackendConnection (InspectorManager.enable listens on `process` for     *)
(* 'aivory:set_breakpoint' and 'aivory:remove_breakpoint', lines 445-451,  *)
(* which nothing emits), so the emit calls no one.                         *)
(***************************************************************************)
OnMessageSetBreakpoint(s, id, lineNumber, maxInbound) ==
    /\ CanReceive(s)
    /\ inbound.n < maxInbound
    /\ inbound' = [n |-> inbound.n + 1, type |-> "set_breakpoint", id |-> id,
                   line |-> lineNumber]
    /\ UNCHANGED <<lifecycle, initLog, instances, processListeners, installed, hooks,
                   originalUncaughtException, hostListener, pvars,
                   tvars, dvars>>

OnMessageRemoveBreakpoint(s, id, maxInbound) ==
    /\ CanReceive(s)
    /\ inbound.n < maxInbound
    /\ inbound' = [n |-> inbound.n + 1, type |-> "remove_breakpoint", id |-> id,
                   line |-> 0]
    /\ UNCHANGED <<lifecycle, initLog, instances, processListeners, installed, hooks,
                   originalUncaughtException, hostListener, pvars,
                   tvars, dvars>>

(***************************************************************************)
(* The peer (or the network) ends the connection: readyState leaves OPEN   *)
(* before the 'close' event is dispatched.                                 *)
(***************************************************************************)
PeerClose(s) ==
    /\ sockets[s] = "OPEN"
    /\ sockets' = [sockets EXCEPT ![s] = "CLOSING"]
    /\ UNCHANGED <<dvars, avars, pvars, ws, connected, authenticated, reconnectAttempts,
                   maxReconnectAttempts, heartbeatInterval, messageQueue,
                   reconnectTimers, backendUrlValid, wire, sendSeq, sentVia,
                   queuedCount, registeredOn>>

(***************************************************************************)
(* The 'close' handler without the reset of `authenticated`.               *)
(***************************************************************************)
OnClose_KeepsAuthenticated(s) ==
    /\ sockets[s] \in {"CONNECTING", "CLOSING", "ABORTED"}
    /\ sockets' = [sockets EXCEPT ![s] = "CLOSED"]
    /\ connected' = FALSE
    /\ authenticated' = authenticated
    /\ heartbeatInterval' = FALSE
    /\ scheduleReconnect
    /\ UNCHANGED <<dvars, avars, pvars, ws, maxReconnectAttempts, messageQueue,
                   backendUrlValid, wire, sendSeq, sentVia, queuedCount, registeredOn>>

(***************************************************************************)
(* ws 'close' handler (lines 71-79).  A socket emits 'close' once: after   *)
(* a failed connection attempt or after the connection ended.              *)
(***************************************************************************)
OnClose(s) ==
    /\ sockets[s] \in {"CONNECTING", "CLOSING", "ABORTED"}
    /\ sockets' = [sockets EXCEPT ![s] = "CLOSED"]
    /\ connected' = FALSE
    /\ authenticated' = FALSE
    /\ heartbeatInterval' = FALSE
    /\ scheduleReconnect
    /\ UNCHANGED <<dvars, avars, pvars, ws, maxReconnectAttempts, messageQueue, backendUrlValid,
                   wire, sendSeq, sentVia, queuedCount, registeredOn>>

(***************************************************************************)
(* The setTimeout callback of scheduleReconnect (lines 315-317).           *)
(***************************************************************************)
RemoveAt(seq, i) == SubSeq(seq, 1, i - 1) \o SubSeq(seq, i + 1, Len(seq))

ReconnectTimerFires(i, maxSockets) ==
    /\ i \in 1..Len(reconnectTimers)
    /\ connected \/ ~backendUrlValid \/ Len(sockets) < maxSockets
    /\ connectOn(RemoveAt(reconnectTimers, i))
    /\ UNCHANGED <<dvars, avars, pvars, connected, authenticated, maxReconnectAttempts,
                   heartbeatInterval, messageQueue, backendUrlValid, wire, sendSeq,
                   sentVia, queuedCount, registeredOn>>

(***************************************************************************)
(* The setInterval callback of startHeartbeat (lines 287-292).             *)
(***************************************************************************)
HeartbeatFires(maxSends) ==
    /\ heartbeatInterval
    /\ sendSeq < maxSends
    /\ send("heartbeat", 0)
    /\ UNCHANGED <<dvars, avars, pvars, ws, connected, authenticated, reconnectAttempts,
                   maxReconnectAttempts, heartbeatInterval, sockets, reconnectTimers,
                   backendUrlValid, registeredOn>>

(***************************************************************************)
(* BackendConnection.sendException (lines 113-142), called by the          *)
(* exception pipeline with a finished capture.                             *)
(***************************************************************************)
sendException(maxSends) ==
    /\ lifecycle # "loaded"
    /\ sendSeq < maxSends
    /\ send("exception", 0)
    /\ UNCHANGED <<dvars, avars, pvars, ws, connected, authenticated, reconnectAttempts,
                   maxReconnectAttempts, heartbeatInterval, sockets, reconnectTimers,
                   backendUrlValid, registeredOn>>

(***************************************************************************)
(* ======================= InspectorManager ============================== *)
(***************************************************************************)
NoLocals == [pause |-> 0, scopes |-> 0]

(***************************************************************************)
(* A run of the exception pipeline (handleUncaughtException,               *)
(* handleUnhandledRejection or capture of ExceptionHandler): the capture   *)
(* it has built and where it stands.                                       *)
(***************************************************************************)
NoHook ==
    [n |-> 0, kind |-> "none", phase |-> "none", key |-> <<>>,
     exceptionType |-> "", stackTrace |-> <<>>, locals |-> NoLocals,
     awaited |-> 0, since |-> 0]

NoCapture ==
    [n |-> 0, kind |-> "none", limit |-> 0, original |-> 0, length |-> 0,
     isTruncated |-> FALSE]

NoPause ==
    [id |-> 0, reason |-> "none", key |-> <<>>, fingerprint |-> <<>>,
     hits |-> {}, hitBackendId |-> "", limited |-> FALSE, phase |-> "none",
     resumes |-> 0, scopesLeft |-> 0, scopesOk |-> 0]

(***************************************************************************)
(* The exceptions the host can throw: the `data` of the pause event (the   *)
(* description is the error's stack text, as lines; a thrown primitive     *)
(* has neither class name nor description) and the paused call frames      *)
(* (0-indexed line numbers); for the exception hooks, the name of the      *)
(* thrown value and the line numbers of the frames of its stack text.      *)
(***************************************************************************)
ThrowSites ==
    { [className |-> "TypeError", descType |-> "TypeError",
       description |-> <<"TypeError: x is null", "at f (app.js:10:5)",
                         "at g (app.js:20:3)">>,
       callFrames |-> <<9, 19>>, name |-> "TypeError", stackLines |-> <<10, 20>>],
      [className |-> "", descType |-> "Error",
       description |-> <<"Error: boom", "at h (lib.js:7:1)", "at i (lib.js:2:1)",
                         "at j (lib.js:3:1)", "at k (lib.js:4:1)">>,
       callFrames |-> <<6, 1, 2, 3>>, name |-> "Error",
       stackLines |-> <<7, 2, 3, 4>>],
      [className |-> "", descType |-> "", description |-> <<>>,
       callFrames |-> <<>>, name |-> "", stackLines |-> <<>>] }

(***************************************************************************)
(* InspectorManager.extractStackKey (lines 654-660): the first four lines  *)
(* of the description, or "unknown-<now>".                                 *)
(***************************************************************************)
extractStackKey(data, t) ==
    IF data.description # <<>>
    THEN SubSeq(data.description, 1, Min(4, Len(data.description)))
    ELSE <<"unknown", t>>

(***************************************************************************)
(* InspectorManager.computeFingerprintFromCallFrames (lines 772-795).      *)
(***************************************************************************)
computeFingerprintFromCallFrames(callFrames, data) ==
    LET exceptionType ==
            IF data.className # "" THEN data.className
            ELSE IF data.descType # "" THEN data.descType
            ELSE "Error"
        n == Min(3, Len(callFrames))
    IN  <<exceptionType>> \o [i \in 1..n |-> callFrames[i] + 1]

(***************************************************************************)
(* Map.set on the locals cache (lines 676-680): a key already present      *)
(* keeps its position.                                                     *)
(***************************************************************************)
CacheSet(cache, key, locals, t) ==
    LET entry == [key |-> key, locals |-> locals, timestamp |-> t]
    IN  IF \E i \in 1..Len(cache) : cache[i].key = key
        THEN [i \in 1..Len(cache) |-> IF cache[i].key = key THEN entry ELSE cache[i]]
        ELSE Append(cache, entry)

(***************************************************************************)
(* InspectorManager.cleanupCache (lines 752-765).                          *)
(***************************************************************************)
cleanupCache(cache, t) ==
    LET fresh == SelectSeq(cache, LAMBDA e : ~(t - e.timestamp > CacheMaxAge))
    IN  IF Len(fresh) > LocalsCacheLimit THEN Tail(fresh) ELSE fresh

(***************************************************************************)
(* A dedup set update that makes room by deleting the fingerprint added    *)
(* last before this one.                                                   *)
(***************************************************************************)
DedupAdd_EvictsLatest(fingerprints, fp) ==
    LET added == IF \E i \in 1..Len(fingerprints) : fingerprints[i] = fp
                 THEN fingerprints
                 ELSE Append(fingerprints, fp)
    IN  IF Len(added) > DedupLimit
        THEN Append(SubSeq(fingerprints, 1, Len(fingerprints) - 1), fp)
        ELSE added

(***************************************************************************)
(* The dedup set update of handlePaused (lines 603-607).                   *)
(***************************************************************************)
DedupAdd(fingerprints, fp) ==
    LET added == IF \E i \in 1..Len(fingerprints) : fingerprints[i] = fp
                 THEN fingerprints
                 ELSE Append(fingerprints, fp)
    IN  IF Len(added) > DedupLimit THEN Tail(added) ELSE added

(***************************************************************************)
(* session.post(method, params, callback): the request waits for its       *)
(* reply.  Requests are answered in the order they were posted.            *)
(***************************************************************************)
Request(method, backendId, arg) ==
    [method |-> method, backendId |-> backendId, arg |-> arg]

GetProperties == Request("Runtime.getProperties", "", 0)

(***************************************************************************)
(* this.session?.post('Debugger.resume') (lines 576, 611, 614, 639, 641,   *)
(* 647): the pause record after the call.                                  *)
(***************************************************************************)
Resumed(p) == IF session THEN [p EXCEPT !.resumes = @ + 1] ELSE p

(***************************************************************************)
(* InspectorManager.getLocalsForError after its wait (lines 729-746): the  *)
(* entries of `cache` under the stack key that are younger than            *)
(* cacheMaxAge, and the cache after the one-time use (CacheDelete_Keeps    *)
(* is the lookup without localsCache.delete).                              *)
(***************************************************************************)
CachedFor(cache, key, t) ==
    { i \in 1..Len(cache) : cache[i].key = key /\ t - cache[i].timestamp < CacheMaxAge }

CacheDelete_Keeps(cache, hit) == cache

CacheDelete(cache, hit) ==
    SelectSeq(cache, LAMBDA e : \A i \in hit : cache[i].key # e.key)

(***************************************************************************)
(* The end of a run of the exception pipeline that ignores the cache and   *)
(* sends what createCapture attached.                                      *)
(***************************************************************************)
FinishPipeline_IgnoresCache(h, cache) ==
    /\ localsCache' = cache
    /\ hook' = [h EXCEPT !.phase = "sent"]
    /\ send("exception", [exceptionType |-> h.exceptionType,
                          stackTrace |-> h.stackTrace, locals |-> h.locals])

(***************************************************************************)
(* The end of a run of the exception pipeline (exception-handler.ts lines  *)
(* 145-152, 166-173, 188-195): the locals getLocalsForError returns from   *)
(* `cache` replace the ones createCapture attached, the cache entry is     *)
(* deleted, and the capture is handed to BackendConnection.sendException.  *)
(***************************************************************************)
FinishPipeline(h, cache) ==
    LET hit == IF h.key = <<>> THEN {} ELSE CachedFor(cache, h.key, now)
        locals == IF hit # {} THEN cache[CHOOSE i \in hit : TRUE].locals ELSE h.locals
    IN  /\ localsCache' = CacheDelete(cache, hit)
        /\ hook' = [h EXCEPT !.phase = "sent", !.locals = locals]
        /\ send("exception", [exceptionType |-> h.exceptionType,
                              stackTrace |-> h.stackTrace, locals |-> locals])

(***************************************************************************)
(* What follows the storing of a harvest under `key`: the run of the       *)
(* pipeline awaiting that harvest (getLocalsForError, lines 714-727)       *)
(* continues in the same turn; nothing is handed to the transport          *)
(* otherwise.  Here the debugger path also sends its own capture.          *)
(***************************************************************************)
ContinuePipeline_InspectorSends(key, cache) ==
    IF hook.phase = "awaiting" /\ hook.key = key
    THEN FinishPipeline(hook, cache)
    ELSE /\ localsCache' = cache
         /\ send("exception", [exceptionType |-> "Error", stackTrace |-> <<>>,
                               locals |-> NoLocals])
         /\ UNCHANGED hook

(***************************************************************************)
(* What follows the storing of a harvest under `key` (`cache` is the       *)
(* cache after it): the run of the pipeline awaiting that harvest          *)
(* (getLocalsForError, lines 714-727) continues in the same turn, after    *)
(* the then-callback of handlePaused; nothing is handed to the transport   *)
(* otherwise.                                                              *)
(***************************************************************************)
ContinuePipeline(key, cache) ==
    IF hook.phase = "awaiting" /\ hook.key = key
    THEN FinishPipeline(hook, cache)
    ELSE /\ localsCache' = cache
         /\ UNCHANGED <<hook, wire, messageQueue, sendSeq, sentVia, queuedCount>>

(***************************************************************************)
(* The then-callback without pendingCaptures.delete(stackKey).             *)
(***************************************************************************)
ExceptionHarvestDone_KeepsPending(p, pending) ==
    LET locals == [pause |-> p.id, scopes |-> p.scopesOk]
    IN  /\ ContinuePipeline(p.key,
                            cleanupCache(CacheSet(localsCache, p.key, locals, now), now))
        /\ lastExceptionData' = locals
        /\ pendingCaptures' = pending
        /\ sentExceptionFingerprints' =
               IF p.reason = "exception"
               THEN DedupAdd(sentExceptionFingerprints, p.fingerprint)
               ELSE sentExceptionFingerprints
        /\ pause' = [Resumed(p) EXCEPT !.phase = "done", !.scopesLeft = 0]
        /\ hostPaused' = IF session THEN FALSE ELSE hostPaused

(***************************************************************************)
(* The completion of captureAndCacheLocals (lines 672-690) followed by the *)
(* then-callback of handlePaused (lines 596-612), for an exception pause   *)
(* whose call frames have all been walked.                                 *)
(***************************************************************************)
ExceptionHarvestDone(p, pending) ==
    LET locals == [pause |-> p.id, scopes |-> p.scopesOk]
    IN  /\ ContinuePipeline(p.key,
                            cleanupCache(CacheSet(localsCache, p.key, locals, now), now))
        /\ lastExceptionData' = locals
        /\ pendingCaptures' = pending \ {p.key}
        /\ sentExceptionFingerprints' =
               IF p.reason = "exception"
               THEN DedupAdd(sentExceptionFingerprints, p.fingerprint)
               ELSE sentExceptionFingerprints
        /\ pause' = [Resumed(p) EXCEPT !.phase = "done", !.scopesLeft = 0]
        /\ hostPaused' = IF session THEN FALSE ELSE hostPaused

(***************************************************************************)
(* The breakpoint branch resuming without sending the hit (what its catch  *)
(* callback does).                                                         *)
(***************************************************************************)
BreakpointHarvestDone_ResumesOnly(p, pending) ==
    /\ pause' = [Resumed(p) EXCEPT !.phase = "done", !.scopesLeft = 0]
    /\ hostPaused' = IF session THEN FALSE ELSE hostPaused
    /\ pendingCaptures' = pending
    /\ UNCHANGED <<hook, localsCache, lastExceptionData, sentExceptionFingerprints,
                   wire, messageQueue, sendSeq, sentVia, queuedCount>>

(***************************************************************************)
(* The then-callback of the breakpoint branch (lines 633-640), with        *)
(* BackendConnection.sendBreakpointHit (lines 147-153).                    *)
(***************************************************************************)
BreakpointHarvestDone(p, pending) ==
    /\ send("breakpoint_hit", [breakpoint_id |-> p.hitBackendId,
                               locals |-> [pause |-> p.id, scopes |-> p.scopesOk]])
    /\ pause' = [Resumed(p) EXCEPT !.phase = "done", !.scopesLeft = 0]
    /\ hostPaused' = IF session THEN FALSE ELSE hostPaused
    /\ pendingCaptures' = pending
    /\ UNCHANGED <<hook, localsCache, lastExceptionData, sentExceptionFingerprints>>

HarvestDone(p, pending) ==
    IF p.hitBackendId # ""
    THEN BreakpointHarvestDone(p, pending)
    ELSE ExceptionHarvestDone(p, pending)

(***************************************************************************)
(* captureCallFramesAsync (lines 894-943) from the scope it is at: the     *)
(* next getObjectProperties (lines 948-982) posts a request if there is a  *)
(* session; without one every remaining scope resolves to {} at once.      *)
(***************************************************************************)
HarvestFrom(p, requests, pending) ==
    IF p.scopesLeft > 0 /\ session
    THEN /\ inflight' = Append(requests, GetProperties)
         /\ pause' = p
         /\ pendingCaptures' = pending
         /\ hostPaused' = TRUE
         /\ UNCHANGED <<hook, localsCache, lastExceptionData,
                        sentExceptionFingerprints, wire, messageQueue, sendSeq,
                        sentVia, queuedCount>>
    ELSE /\ inflight' = requests
         /\ HarvestDone(p, pending)

(***************************************************************************)
(* The rate limiter of handlePaused (lines 567-572): the counter and the   *)
(* window end after this event, and whether the event is past the limit.   *)
(***************************************************************************)
RateWindowReset(t) == IF t > rateLimitReset THEN t + RateLimitWindow ELSE rateLimitReset

RateCount(t) == (IF t > rateLimitReset THEN 0 ELSE rateLimitCount) + 1

RateLimited(t) == RateCount(t) > RateLimitMax

(***************************************************************************)
(* The breakpoint lookup of handlePaused (lines 621-629): the first        *)
(* registry entry, in insertion order, whose id is among the hit ids.      *)
(***************************************************************************)
HitBackendId(hitBreakpoints) ==
    LET matches == SelectSeq(breakpoints, LAMBDA bp : bp.id \in hitBreakpoints)
    IN  IF Len(matches) > 0 THEN matches[1].backendId ELSE ""

(***************************************************************************)
(* InspectorManager.handlePaused (lines 557-648), run for a                *)
(* Debugger.paused event.  The debugger reports a pause only while the     *)
(* host runs, so pauses are handled one at a time.                         *)
(***************************************************************************)
handlePaused(reason, site, scopes, hitBreakpoints) ==
    LET p0 == [NoPause EXCEPT !.id = pause.id + 1, !.reason = reason,
                              !.hits = hitBreakpoints, !.phase = "harvesting"]
    IN  IF ~session
        THEN /\ pause' = [p0 EXCEPT !.phase = "done"]
             /\ hostPaused' = TRUE
             /\ UNCHANGED <<rateLimitCount, rateLimitReset, inflight, pendingCaptures,
                            hook, localsCache, lastExceptionData,
                            sentExceptionFingerprints,
                            wire, messageQueue, sendSeq, sentVia, queuedCount>>
        ELSE IF reason \in {"exception", "promiseRejection"}
        THEN /\ rateLimitReset' = RateWindowReset(now)
             /\ rateLimitCount' = RateCount(now)
             /\ IF RateLimited(now)
                THEN /\ pause' = [Resumed(p0) EXCEPT !.limited = TRUE, !.phase = "done"]
                     /\ hostPaused' = FALSE
                     /\ UNCHANGED <<inflight, pendingCaptures, hook, localsCache,
                                    lastExceptionData, sentExceptionFingerprints,
                                    wire, messageQueue, sendSeq, sentVia, queuedCount>>
                ELSE LET key == extractStackKey(site, now)
                         fp == computeFingerprintFromCallFrames(site.callFrames, site)
                         p == [p0 EXCEPT !.key = key, !.fingerprint = fp,
                                         !.scopesLeft = scopes]
                     IN  HarvestFrom(p, inflight, pendingCaptures \cup {key})
        ELSE /\ UNCHANGED <<rateLimitCount, rateLimitReset>>
             /\ IF HitBackendId(hitBreakpoints) # ""
                THEN LET p == [p0 EXCEPT !.hitBackendId = HitBackendId(hitBreakpoints),
                                         !.scopesLeft = scopes]
                     IN  HarvestFrom(p, inflight, pendingCaptures)
                ELSE /\ pause' = [Resumed(p0) EXCEPT !.phase = "done"]
                     /\ hostPaused' = FALSE
                     /\ UNCHANGED <<inflight, pendingCaptures, hook, localsCache,
                                    lastExceptionData, sentExceptionFingerprints,
                                    wire, messageQueue, sendSeq, sentVia, queuedCount>>

(***************************************************************************)
(* The Debugger.paused event (lines 440-442).  The debugger pauses a       *)
(* running host on an exception (when told to pause on exceptions), on     *)
(* installed breakpoints, or for another reason (a debugger statement).    *)
(***************************************************************************)
OnPausedException(reason, site, scopes, maxPauses) ==
    /\ session /\ v8Enabled /\ v8PauseOnExceptions /\ ~hostPaused
    /\ pause.id < maxPauses
    /\ handlePaused(reason, site, scopes, {})
    /\ harvestTimes' = IF pause'.limited THEN harvestTimes
                       ELSE Append(harvestTimes, now)
    /\ UNCHANGED <<avars, hostCalls, captured, ws, connected, authenticated, reconnectAttempts,
                   maxReconnectAttempts, heartbeatInterval, sockets, reconnectTimers,
                   backendUrlValid, registeredOn, session, enabled,
                   exceptionPauseEnabled, breakpoints, now, v8Enabled,
                   v8PauseOnExceptions, v8Breakpoints>>

OnPausedOther(hitBreakpoints, scopes) ==
    /\ session /\ v8Enabled /\ ~hostPaused
    /\ pause.id < MaxPauses
    /\ hitBreakpoints \subseteq v8Breakpoints
    /\ handlePaused("other", CHOOSE site \in ThrowSites : site.description = <<>>,
                    scopes, hitBreakpoints)
    /\ UNCHANGED <<avars, hostCalls, harvestTimes, captured, ws, connected, authenticated, reconnectAttempts,
                   maxReconnectAttempts, heartbeatInterval, sockets, reconnectTimers,
                   backendUrlValid, registeredOn, session, enabled,
                   exceptionPauseEnabled, breakpoints, now, v8Enabled,
                   v8PauseOnExceptions, v8Breakpoints>>

(***************************************************************************)
(* Replies of the debugger.  After session.disconnect() every pending      *)
(* callback is called with an error.                                       *)
(***************************************************************************)
ReplyTo(method, ok) ==
    /\ Len(inflight) > 0
    /\ Head(inflight).method = method
    /\ ok => session

(***************************************************************************)
(* The callback of Runtime.getProperties in getObjectProperties (lines     *)
(* 959-980) and the continuation of captureCallFramesAsync after it.       *)
(***************************************************************************)
OnGetPropertiesReply(ok) ==
    /\ ReplyTo("Runtime.getProperties", ok)
    /\ HarvestFrom([pause EXCEPT !.scopesLeft = @ - 1,
                                 !.scopesOk = IF ok THEN @ + 1 ELSE @],
                   Tail(inflight), pendingCaptures)
    /\ UNCHANGED <<avars, hostCalls, harvestTimes, captured, ws, connected, authenticated, reconnectAttempts,
                   maxReconnectAttempts, heartbeatInterval, sockets, reconnectTimers,
                   backendUrlValid, registeredOn, session, enabled,
                   exceptionPauseEnabled, breakpoints, rateLimitCount, rateLimitReset,
                   now, v8Enabled, v8PauseOnExceptions, v8Breakpoints>>

(***************************************************************************)
(* The callbacks of Debugger.enable and Debugger.setPauseOnExceptions in   *)
(* enable (lines 404-430).                                                 *)
(***************************************************************************)
OnEnableReply(ok) ==
    /\ ReplyTo("Debugger.enable", ok)
    /\ v8Enabled' = ok
    /\ inflight' = IF ok
                   THEN Append(Tail(inflight),
                               Request("Debugger.setPauseOnExceptions", "", 0))
                   ELSE Tail(inflight)
    /\ UNCHANGED <<avars, pvars, tvars, session, enabled, exceptionPauseEnabled,
                   breakpoints, lastExceptionData, sentExceptionFingerprints,
                   localsCache, pendingCaptures, rateLimitCount, rateLimitReset, now,
                   v8PauseOnExceptions, v8Breakpoints, hostPaused, pause>>

OnPauseOnExceptionsReply(ok) ==
    /\ ReplyTo("Debugger.setPauseOnExceptions", ok)
    /\ v8PauseOnExceptions' = ok
    /\ exceptionPauseEnabled' = (ok \/ exceptionPauseEnabled)
    /\ inflight' = Tail(inflight)
    /\ UNCHANGED <<avars, pvars, tvars, session, enabled, breakpoints, lastExceptionData,
                   sentExceptionFingerprints, localsCache, pendingCaptures,
                   rateLimitCount, rateLimitReset, now, v8Enabled, v8Breakpoints,
                   hostPaused, pause>>

(***************************************************************************)
(* Map.set / Map.delete on the breakpoint registry.                        *)
(***************************************************************************)
RegistrySet(registry, backendId, id) ==
    LET entry == [backendId |-> backendId, id |-> id]
    IN  IF \E i \in 1..Len(registry) : registry[i].backendId = backendId
        THEN [i \in 1..Len(registry) |->
                 IF registry[i].backendId = backendId THEN entry ELSE registry[i]]
        ELSE Append(registry, entry)

RegistryDelete(registry, backendId) ==
    SelectSeq(registry, LAMBDA bp : bp.backendId # backendId)

RegistryHas(registry, backendId) ==
    \E i \in 1..Len(registry) : registry[i].backendId = backendId

RegistryGet(registry, backendId) ==
    (CHOOSE i \in 1..Len(registry) : registry[i].backendId = backendId)

(***************************************************************************)
(* InspectorManager.setBreakpoint (lines 488-524): the request, and its    *)
(* callback.  The debugger names a breakpoint after its location and       *)
(* refuses a second breakpoint at the same location.                       *)
(* OnSetBreakpointReply_RecordsFailures is the callback without its        *)
(* checks of err and result.breakpointId.                                  *)
(***************************************************************************)
BreakpointIdAt(line) == <<"bp", line>>

setBreakpoint(backendId, lineNumber) ==
    /\ lifecycle # "loaded"
    /\ Len(inflight) < MaxInflight
    /\ inflight' = IF ~enabled \/ ~session
                   THEN inflight
                   ELSE Append(inflight,
                               Request("Debugger.setBreakpointByUrl", backendId,
                                       lineNumber - 1))
    /\ UNCHANGED <<avars, pvars, tvars, session, enabled, exceptionPauseEnabled,
                   breakpoints, lastExceptionData, sentExceptionFingerprints,
                   localsCache, pendingCaptures, rateLimitCount, rateLimitReset, now,
                   v8Enabled, v8PauseOnExceptions, v8Breakpoints, hostPaused, pause>>

OnSetBreakpointReply_RecordsFailures(ok) ==
    LET req == Head(inflight)
        id == BreakpointIdAt(req.arg)
    IN  /\ ReplyTo("Debugger.setBreakpointByUrl", ok)
        /\ ok => (v8Enabled /\ id \notin v8Breakpoints)
        /\ inflight' = Tail(inflight)
        /\ v8Breakpoints' = IF ok THEN v8Breakpoints \cup {id} ELSE v8Breakpoints
        /\ breakpoints' = RegistrySet(breakpoints, req.backendId, id)
        /\ UNCHANGED <<avars, pvars, tvars, session, enabled, exceptionPauseEnabled,
                       lastExceptionData, sentExceptionFingerprints, localsCache,
                       pendingCaptures, rateLimitCount, rateLimitReset, now, v8Enabled,
                       v8PauseOnExceptions, hostPaused, pause>>

OnSetBreakpointReply(ok) ==
    LET req == Head(inflight)
        id == BreakpointIdAt(req.arg)
    IN  /\ ReplyTo("Debugger.setBreakpointByUrl", ok)
        /\ ok => (v8Enabled /\ id \notin v8Breakpoints)
        /\ inflight' = Tail(inflight)
        /\ v8Breakpoints' = IF ok THEN v8Breakpoints \cup {id} ELSE v8Breakpoints
        /\ breakpoints' = IF ok THEN RegistrySet(breakpoints, req.backendId, id)
                          ELSE breakpoints
        /\ UNCHANGED <<avars, pvars, tvars, session, enabled, exceptionPauseEnabled,
                       lastExceptionData, sentExceptionFingerprints, localsCache,
                       pendingCaptures, rateLimitCount, rateLimitReset, now, v8Enabled,
                       v8PauseOnExceptions, hostPaused, pause>>

(***************************************************************************)
(* InspectorManager.removeBreakpoint (lines 529-555): the requests it      *)
(* adds to `requests`, and its callback.                                   *)
(***************************************************************************)
RemoveRequests(requests, backendId) ==
    IF ~enabled \/ ~session \/ ~RegistryHas(breakpoints, backendId)
    THEN requests
    ELSE Append(requests,
                Request("Debugger.removeBreakpoint", backendId,
                        breakpoints[RegistryGet(breakpoints, backendId)].id))

removeBreakpoint(backendId) ==
    /\ lifecycle # "loaded"
    /\ Len(inflight) < MaxInflight
    /\ inflight' = RemoveRequests(inflight, backendId)
    /\ UNCHANGED <<avars, pvars, tvars, session, enabled, exceptionPauseEnabled,
                   breakpoints, lastExceptionData, sentExceptionFingerprints,
                   localsCache, pendingCaptures, rateLimitCount, rateLimitReset, now,
                   v8Enabled, v8PauseOnExceptions, v8Breakpoints, hostPaused, pause>>

OnRemoveBreakpointReply(ok) ==
    LET req == Head(inflight)
    IN  /\ ReplyTo("Debugger.removeBreakpoint", ok)
        /\ inflight' = Tail(inflight)
        /\ v8Breakpoints' = IF ok THEN v8Breakpoints \ {req.arg} ELSE v8Breakpoints
        /\ breakpoints' = IF ok THEN RegistryDelete(breakpoints, req.backendId)
                          ELSE breakpoints
        /\ UNCHANGED <<avars, pvars, tvars, session, enabled, exceptionPauseEnabled,
                       lastExceptionData, sentExceptionFingerprints, localsCache,
                       pendingCaptures, rateLimitCount, rateLimitReset, now, v8Enabled,
                       v8PauseOnExceptions, hostPaused, pause>>

(***************************************************************************)
(* InspectorManager.enable (lines 394-460).                                *)
(***************************************************************************)
enable ==
    IF enabled
    THEN UNCHANGED <<session, enabled, inflight>>
    ELSE /\ session' = TRUE
         /\ enabled' = TRUE
         /\ inflight' = Append(inflight, Request("Debugger.enable", "", 0))

(***************************************************************************)
(* InspectorManager.disable (lines 465-483).  Debugger.disable and         *)
(* session.disconnect() end the pause of the host and drop the             *)
(* debugger's breakpoints.  The session either runs the callbacks of the   *)
(* removal requests inside post, acknowledging them (`acknowledged`), or   *)
(* leaves them pending at the disconnect, after which they are called      *)
(* with an error.                                                          *)
(***************************************************************************)
RECURSIVE RemoveAllRequests(_, _)
RemoveAllRequests(requests, registry) ==
    IF registry = <<>> THEN requests
    ELSE RemoveAllRequests(RemoveRequests(requests, Head(registry).backendId),
                           Tail(registry))

disable(acknowledged) ==
    IF ~enabled \/ ~session
    THEN UNCHANGED <<session, enabled, inflight, breakpoints, v8Enabled,
                     v8PauseOnExceptions, v8Breakpoints, hostPaused>>
    ELSE /\ inflight' = IF acknowledged THEN inflight
                        ELSE RemoveAllRequests(inflight, breakpoints)
         /\ breakpoints' = IF acknowledged THEN <<>> ELSE breakpoints
         /\ session' = FALSE
         /\ enabled' = FALSE
         /\ v8Enabled' = FALSE
         /\ v8PauseOnExceptions' = FALSE
         /\ v8Breakpoints' = {}
         /\ hostPaused' = FALSE

(***************************************************************************)
(* Time passes.                                                            *)
(***************************************************************************)
Elapse(ms, until) ==
    /\ now + ms <= until
    /\ now' = now + ms
    /\ UNCHANGED <<avars, pvars, tvars, session, enabled, exceptionPauseEnabled,
                   breakpoints, lastExceptionData, sentExceptionFingerprints,
                   localsCache, pendingCaptures, rateLimitCount, rateLimitReset,
                   inflight, v8Enabled, v8PauseOnExceptions, v8Breakpoints, hostPaused,
                   pause>>

Tick ==
    /\ now < MaxTicks * TickMs
    /\ now' = now + TickMs
    /\ UNCHANGED <<avars, pvars, tvars, session, enabled, exceptionPauseEnabled,
                   breakpoints, lastExceptionData, sentExceptionFingerprints,
                   localsCache, pendingCaptures, rateLimitCount, rateLimitReset,
                   inflight, v8Enabled, v8PauseOnExceptions, v8Breakpoints, hostPaused,
                   pause>>

(***************************************************************************)
(* InspectorManager.wasExceptionSentByInspector (lines 863-871): the       *)
(* fingerprint it builds from the exception type and the first three line  *)
(* numbers of the parsed stack, and its lookup in the dedup set.  No       *)
(* function of the agent calls it.                                         *)
(***************************************************************************)
InspectorFingerprint(exceptionType, stackTrace) ==
    <<exceptionType>> \o SubSeq(stackTrace, 1, Min(3, Len(stackTrace)))

wasExceptionSentByInspector(exceptionType, stackTrace) ==
    \E i \in 1..Len(sentExceptionFingerprints) :
        sentExceptionFingerprints[i] = InspectorFingerprint(exceptionType, stackTrace)

(***************************************************************************)
(* The stack key of a lookup that keeps only the first two lines.          *)
(***************************************************************************)
lookupStackKey_TwoLines(stack) ==
    IF stack = <<>> THEN <<>> ELSE SubSeq(stack, 1, Min(2, Len(stack)))

(***************************************************************************)
(* The stack key of InspectorManager.getLocalsForError (lines 707-712):    *)
(* the first four lines of error.stack; no key (and no lookup) for an      *)
(* error without stack.                                                    *)
(***************************************************************************)
lookupStackKey(stack) ==
    IF stack = <<>> THEN <<>> ELSE SubSeq(stack, 1, Min(4, Len(stack)))

(***************************************************************************)
(* The start of a run of the exception pipeline (exception-handler.ts      *)
(* lines 134-153, 155-174, 176-196): the sampling check, createCapture     *)
(* (lines 198-228, which consumes lastExceptionData when exception pauses  *)
(* are enabled) and getLocalsForError (backend-connection.ts lines         *)
(* 707-747), which waits for the pending harvest of the error's stack key  *)
(* (none for a thrown value without a stack) and otherwise looks the       *)
(* cache up at once.  The payload handed to the transport carries the      *)
(* exception type, the line numbers of the stack trace and the locals.     *)
(***************************************************************************)
StartPipeline(kind, site, sampled) ==
    LET key == lookupStackKey(site.description)
        created == IF exceptionPauseEnabled THEN lastExceptionData ELSE NoLocals
        h == [NoHook EXCEPT !.n = hook.n + 1, !.kind = kind, !.key = key,
                            !.exceptionType = IF site.name # "" THEN site.name
                                              ELSE "Error",
                            !.stackTrace = site.stackLines, !.locals = created,
                            !.since = now]
    IN  IF ~sampled
        THEN /\ hook' = [NoHook EXCEPT !.n = hook.n + 1, !.kind = kind,
                                       !.phase = "skipped"]
             /\ UNCHANGED <<lastExceptionData, localsCache, wire, messageQueue,
                            sendSeq, sentVia, queuedCount>>
        ELSE /\ lastExceptionData' = IF exceptionPauseEnabled THEN NoLocals
                                     ELSE lastExceptionData
             /\ IF key # <<>> /\ key \in pendingCaptures
                THEN /\ hook' = [h EXCEPT !.phase = "awaiting", !.awaited = pause.id]
                     /\ UNCHANGED <<localsCache, wire, messageQueue, sendSeq,
                                    sentVia, queuedCount>>
                ELSE FinishPipeline(h, localsCache)

(***************************************************************************)
(* The 'uncaughtException' event while the agent's listener is installed   *)
(* (exception-handler.ts lines 80-91; the 'unhandledRejection' listener,   *)
(* lines 94-100, is the same): process calls its listeners in the order    *)
(* they were added, so first the host's listener that was there before     *)
(* install, then the agent's, which starts the pipeline and calls          *)
(* this.originalUncaughtException.  One run of the pipeline is followed    *)
(* at a time.                                                              *)
(***************************************************************************)
handleUncaughtException(site, sampled, maxEvents) ==
    /\ installed
    /\ hook.phase # "awaiting"
    /\ hook.n < maxEvents
    /\ StartPipeline("uncaughtException", site, sampled)
    /\ hostCalls' = (IF hostListener THEN 1 ELSE 0)
                       + (IF originalUncaughtException THEN 1 ELSE 0)
    /\ UNCHANGED <<avars, harvestTimes, captured, ws, connected, authenticated,
                   reconnectAttempts, maxReconnectAttempts, heartbeatInterval,
                   sockets, reconnectTimers, backendUrlValid, registeredOn, session,
                   enabled, exceptionPauseEnabled, breakpoints,
                   sentExceptionFingerprints, pendingCaptures, rateLimitCount,
                   rateLimitReset, now, inflight, v8Enabled, v8PauseOnExceptions,
                   v8Breakpoints, hostPaused, pause>>

(***************************************************************************)
(* captureException (src/src/index.ts lines 81-88) and                     *)
(* ExceptionHandler.capture (exception-handler.ts lines 134-153).          *)
(***************************************************************************)
capture(site, sampled, maxEvents) ==
    /\ lifecycle = "running"
    /\ hook.phase # "awaiting"
    /\ hook.n < maxEvents
    /\ StartPipeline("capture", site, sampled)
    /\ UNCHANGED <<avars, hostCalls, harvestTimes, captured, ws, connected,
                   authenticated, reconnectAttempts, maxReconnectAttempts,
                   heartbeatInterval, sockets, reconnectTimers, backendUrlValid,
                   registeredOn, session, enabled, exceptionPauseEnabled, breakpoints,
                   sentExceptionFingerprints, pendingCaptures, rateLimitCount,
                   rateLimitReset, now, inflight, v8Enabled, v8PauseOnExceptions,
                   v8Breakpoints, hostPaused, pause>>

(***************************************************************************)
(* The 100 ms timer of getLocalsForError (lines 721-724) fires before the  *)
(* awaited harvest has completed: the race rejects, and the run continues  *)
(* with the cache as it is.                                                *)
(***************************************************************************)
OnHarvestTimeout ==
    /\ hook.phase = "awaiting"
    /\ now - hook.since >= HarvestTimeout
    /\ FinishPipeline(hook, localsCache)
    /\ UNCHANGED <<avars, hostCalls, harvestTimes, captured, ws, connected,
                   authenticated, reconnectAttempts, maxReconnectAttempts,
                   heartbeatInterval, sockets, reconnectTimers, backendUrlValid,
                   registeredOn, session, enabled, exceptionPauseEnabled, breakpoints,
                   lastExceptionData, sentExceptionFingerprints, pendingCaptures,
                   rateLimitCount, rateLimitReset, now, inflight, v8Enabled,
                   v8PauseOnExceptions, v8Breakpoints, hostPaused, pause>>

(***************************************************************************)
(* ExceptionHandler.install (src/src/capture/exception-handler.ts lines    *)
(* 73-106) and uninstall (lines 111-128): guarded by this.installed; the   *)
(* listeners are added to process and removed with removeAllListeners.     *)
(***************************************************************************)
install ==
    IF installed
    THEN UNCHANGED <<installed, hooks, originalUncaughtException>>
    ELSE /\ originalUncaughtException' = hostListener
         /\ installed' = TRUE
         /\ hooks' = hooks + 1

uninstall ==
    IF ~installed
    THEN UNCHANGED <<installed, hooks, hostListener>>
    ELSE /\ installed' = FALSE
         /\ hooks' = 0
         /\ hostListener' = originalUncaughtException

(***************************************************************************)
(* init without the check of `initialized`: every call with an API key     *)
(* constructs and starts the agent again.                                  *)
(***************************************************************************)
init_Unguarded(hasApiKey, maxInitCalls) ==
    /\ lifecycle # "stopped"
    /\ Len(initLog) < maxInitCalls
    /\ IF ~hasApiKey
       THEN /\ initLog' = Append(initLog, "no_api_key")
            /\ UNCHANGED <<lifecycle, instances, processListeners, installed, hooks,
                           originalUncaughtException, hostListener, pvars,
                           inbound, tvars, dvars>>
       ELSE /\ initLog' = Append(initLog, "initialized")
            /\ lifecycle' = "running"
            /\ instances' = instances + 1
            /\ enable
            /\ install
            /\ connect
            /\ processListeners' = processListeners + 1
            /\ UNCHANGED <<hostListener, pvars, inbound, connected, authenticated,
                           maxReconnectAttempts,
                           heartbeatInterval, messageQueue, backendUrlValid, wire,
                           sendSeq, sentVia, queuedCount, registeredOn,
                           exceptionPauseEnabled, breakpoints, lastExceptionData,
                           sentExceptionFingerprints, localsCache, pendingCaptures,
                           rateLimitCount, rateLimitReset, now, v8Enabled,
                           v8PauseOnExceptions, v8Breakpoints, hostPaused, pause>>

(***************************************************************************)
(* init (src/src/index.ts lines 28-77).  A call while initialized warns    *)
(* and returns (lines 29-32); a call without an API key returns before     *)
(* anything is constructed (lines 36-39); otherwise the three objects are  *)
(* constructed, the debugger session enabled, the exception handler        *)
(* installed, the transport connected and the shutdown listeners           *)
(* registered on process.  One agent is followed from load to shutdown,    *)
(* so an init after shutdown is outside the model.                         *)
(***************************************************************************)
init(hasApiKey, maxInitCalls) ==
    /\ lifecycle # "stopped"
    /\ Len(initLog) < maxInitCalls
    /\ IF lifecycle = "running"
       THEN /\ initLog' = Append(initLog, "ignored")
            /\ UNCHANGED <<lifecycle, instances, processListeners, installed, hooks,
                           originalUncaughtException, hostListener, pvars,
                           inbound, tvars, dvars>>
       ELSE IF ~hasApiKey
       THEN /\ initLog' = Append(initLog, "no_api_key")
            /\ UNCHANGED <<lifecycle, instances, processListeners, installed, hooks,
                           originalUncaughtException, hostListener, pvars,
                           inbound, tvars, dvars>>
       ELSE /\ initLog' = Append(initLog, "initialized")
            /\ lifecycle' = "running"
            /\ instances' = instances + 1
            /\ enable
            /\ install
            /\ connect
            /\ processListeners' = processListeners + 1
            /\ UNCHANGED <<hostListener, pvars, inbound, connected, authenticated,
                           maxReconnectAttempts,
                           heartbeatInterval, messageQueue, backendUrlValid, wire,
                           sendSeq, sentVia, queuedCount, registeredOn,
                           exceptionPauseEnabled, breakpoints, lastExceptionData,
                           sentExceptionFingerprints, localsCache, pendingCaptures,
                           rateLimitCount, rateLimitReset, now, v8Enabled,
                           v8PauseOnExceptions, v8Breakpoints, hostPaused, pause>>

(***************************************************************************)
(* shutdown (src/src/index.ts lines 118-138).                              *)
(***************************************************************************)
shutdown ==
    /\ lifecycle = "running"
    /\ lifecycle' = "stopped"
    /\ uninstall
    /\ \E acknowledged \in BOOLEAN : disable(acknowledged)
    /\ disconnect
    /\ UNCHANGED <<initLog, instances, processListeners, originalUncaughtException,
                   pvars, inbound, reconnectAttempts, maxReconnectAttempts, messageQueue,
                   reconnectTimers, backendUrlValid, wire, sendSeq, sentVia,
                   queuedCount, registeredOn, exceptionPauseEnabled, lastExceptionData,
                   sentExceptionFingerprints, localsCache, pendingCaptures,
                   rateLimitCount, rateLimitReset, now, pause>>

(***************************************************************************)
(* State after the module is loaded and before init(): the fields hold     *)
(* the initialisers of the class (lines 29-36).                            *)
(***************************************************************************)
Init ==
    /\ lifecycle = "loaded"
    /\ initLog = <<>>
    /\ instances = 0
    /\ processListeners = 0
    /\ installed = FALSE
    /\ hooks = 0
    /\ originalUncaughtException = FALSE
    /\ hostListener = FALSE
    /\ hook = NoHook
    /\ hostCalls = 0
    /\ harvestTimes = <<>>
    /\ captured = NoCapture
    /\ inbound = [n |-> 0, type |-> "none", id |-> "none", line |-> 0]
    /\ ws = 0
    /\ connected = FALSE
    /\ authenticated = FALSE
    /\ reconnectAttempts = 0
    /\ maxReconnectAttempts = MaxReconnectAttemptsDefault
    /\ heartbeatInterval = FALSE
    /\ messageQueue = <<>>
    /\ sockets = <<>>
    /\ reconnectTimers = <<>>
    /\ backendUrlValid \in BOOLEAN
    /\ wire = <<>>
    /\ sendSeq = 0
    /\ sentVia = "none"
    /\ queuedCount = 0
    /\ registeredOn = {}
    /\ session = FALSE
    /\ enabled = FALSE
    /\ exceptionPauseEnabled = FALSE
    /\ breakpoints = <<>>
    /\ lastExceptionData = NoLocals
    /\ sentExceptionFingerprints = <<>>
    /\ localsCache = <<>>
    /\ pendingCaptures = {}
    /\ rateLimitCount = 0
    /\ rateLimitReset = 0
    /\ now = 0
    /\ inflight = <<>>
    /\ v8Enabled = FALSE
    /\ v8PauseOnExceptions = FALSE
    /\ v8Breakpoints = {}
    /\ hostPaused = FALSE
    /\ pause = NoPause

TransportNext(maxSockets, maxSends) ==
    \/ \E s \in SocketIds : OnOpen(s)
    \/ \E s \in SocketIds : OnMessageRegistered(s)
    \/ \E s \in SocketIds, code \in ErrorCodes : OnMessageError(s, code)
    \/ \E s \in SocketIds : PeerClose(s)
    \/ \E s \in SocketIds : OnClose(s)
    \/ \E i \in 1..Len(reconnectTimers) : ReconnectTimerFires(i, maxSockets)
    \/ HeartbeatFires(maxSends)
    \/ sendException(maxSends)

DebuggerNext(backendIds, lines) ==
    \/ \E reason \in {"exception", "promiseRejection"}, site \in ThrowSites,
          scopes \in 0..MaxScopes : OnPausedException(reason, site, scopes, MaxPauses)
    \/ \E hits \in SUBSET v8Breakpoints, scopes \in 0..MaxScopes :
          OnPausedOther(hits, scopes)
    \/ \E ok \in BOOLEAN : OnGetPropertiesReply(ok)
    \/ \E ok \in BOOLEAN : OnEnableReply(ok)
    \/ \E ok \in BOOLEAN : OnPauseOnExceptionsReply(ok)
    \/ \E b \in backendIds, line \in lines : setBreakpoint(b, line)
    \/ \E ok \in BOOLEAN : OnSetBreakpointReply(ok)
    \/ \E b \in backendIds : removeBreakpoint(b)
    \/ \E ok \in BOOLEAN : OnRemoveBreakpointReply(ok)
    \/ Tick

(***************************************************************************)
(* Spec: the transport (with init and shutdown) against the collector and  *)
(* the senders of messages.                                                *)
(***************************************************************************)
Next ==
    \/ init(TRUE, 1)
    \/ shutdown
    \/ TransportNext(MaxSockets, MaxSends)

Spec == Init /\ [][Next]_vars

(***************************************************************************)
(* DebuggerSpec: the debugger session (with init and shutdown) against the *)
(* debugger, on the first connection of the transport.                     *)
(***************************************************************************)
DebuggerSpecNext ==
    \/ init(TRUE, 1)
    \/ shutdown
    \/ DebuggerNext({"b1"}, {10})
    \/ \E s \in SocketIds : OnOpen(s)
    \/ \E s \in SocketIds : OnMessageRegistered(s)

DebuggerSpec == Init /\ [][DebuggerSpecNext]_vars

(***************************************************************************)
(* QueueSpec: the outbound buffer on the first connection, with enough     *)
(* sends to overflow it.                                                   *)
(***************************************************************************)
QueueNext ==
    \/ init(TRUE, 1)
    \/ \E s \in SocketIds : OnOpen(s)
    \/ \E s \in SocketIds : OnMessageRegistered(s)
    \/ \E s \in SocketIds : PeerClose(s)
    \/ \E s \in SocketIds : OnClose(s)
    \/ sendException(MaxQueueSends)

QueueSpec == Init /\ [][QueueNext]_vars

(***************************************************************************)
(* HarvestSpec: the exception pauses of the debugger session alone (with   *)
(* init and shutdown), against a collector that can be reached.            *)
(***************************************************************************)
HarvestNext ==
    \/ init(TRUE, 1)
    \/ shutdown
    \/ \E reason \in {"exception", "promiseRejection"}, site \in ThrowSites,
          scopes \in 0..MaxScopes : OnPausedException(reason, site, scopes, MaxPauses)
    \/ \E ok \in BOOLEAN : OnGetPropertiesReply(ok)
    \/ \E ok \in BOOLEAN : OnEnableReply(ok)
    \/ \E ok \in BOOLEAN : OnPauseOnExceptionsReply(ok)
    \/ Tick

HarvestInit == Init /\ backendUrlValid

HarvestSpec == HarvestInit /\ [][HarvestNext]_vars

(***************************************************************************)
(* LifecycleSpec: repeated calls of init, with and without an API key,     *)
(* while the transport connects and registers and the debugger session     *)
(* is being enabled.                                                       *)
(***************************************************************************)
LifecycleNext ==
    \/ \E hasApiKey \in BOOLEAN : init(hasApiKey, MaxInitCalls)
    \/ shutdown
    \/ \E s \in SocketIds : OnOpen(s)
    \/ \E s \in SocketIds : OnMessageRegistered(s)
    \/ \E s \in SocketIds : PeerClose(s)
    \/ \E s \in SocketIds : OnClose(s)
    \/ \E i \in 1..Len(reconnectTimers) : ReconnectTimerFires(i, MaxSockets)
    \/ \E ok \in BOOLEAN : OnEnableReply(ok)
    \/ \E ok \in BOOLEAN : OnPauseOnExceptionsReply(ok)

LifecycleSpec == Init /\ [][LifecycleNext]_vars

(***************************************************************************)
(* The breakpoints the collector asks for in the scenarios below: backend  *)
(* id and 1-indexed line number.                                           *)
(***************************************************************************)
BreakpointCommands == {<<"b1", 11>>, <<"b2", 21>>}

(***************************************************************************)
(* BreakpointSpec: the breakpoint pauses of the debugger session (with     *)
(* init and shutdown), against the debugger and a collector that can be    *)
(* reached.                                                                *)
(***************************************************************************)
BreakpointNext ==
    \/ init(TRUE, 1)
    \/ shutdown
    \/ \E s \in SocketIds : OnOpen(s)
    \/ \E s \in SocketIds : OnMessageRegistered(s)
    \/ \E ok \in BOOLEAN : OnEnableReply(ok)
    \/ \E ok \in BOOLEAN : OnPauseOnExceptionsReply(ok)
    \/ \E c \in BreakpointCommands : setBreakpoint(c[1], c[2])
    \/ \E ok \in BOOLEAN : OnSetBreakpointReply(ok)
    \/ \E hits \in SUBSET v8Breakpoints, scopes \in 0..MaxScopes :
          OnPausedOther(hits, scopes)
    \/ \E ok \in BOOLEAN : OnGetPropertiesReply(ok)

BreakpointSpec == HarvestInit /\ [][BreakpointNext]_vars

(***************************************************************************)
(* RegistrySpec: the breakpoint registry (with init and shutdown), against *)
(* the debugger and a collector that can be reached and sends breakpoint   *)
(* commands.                                                               *)
(***************************************************************************)
RegistryNext ==
    \/ init(TRUE, 1)
    \/ shutdown
    \/ \E s \in SocketIds : OnOpen(s)
    \/ \E s \in SocketIds, c \in BreakpointCommands :
          OnMessageSetBreakpoint(s, c[1], c[2], MaxInbound)
    \/ \E s \in SocketIds, c \in BreakpointCommands :
          OnMessageRemoveBreakpoint(s, c[1], MaxInbound)
    \/ \E ok \in BOOLEAN : OnEnableReply(ok)
    \/ \E ok \in BOOLEAN : OnPauseOnExceptionsReply(ok)
    \/ \E c \in BreakpointCommands : setBreakpoint(c[1], c[2])
    \/ \E ok \in BOOLEAN : OnSetBreakpointReply(ok)
    \/ \E c \in BreakpointCommands : removeBreakpoint(c[1])
    \/ \E ok \in BOOLEAN : OnRemoveBreakpointReply(ok)

RegistrySpec == HarvestInit /\ [][RegistryNext]_vars

(***************************************************************************)
(* The listeners InspectorManager.enable adds to process (lines 445-451):  *)
(* an 'aivory:set_breakpoint' event calls setBreakpoint and an             *)
(* 'aivory:remove_breakpoint' event calls removeBreakpoint, each with the  *)
(* id of the event's data.  `inbound` keeps the last command.              *)
(***************************************************************************)
OnSetBreakpointEvent(backendId, lineNumber, maxCommands) ==
    /\ lifecycle # "loaded"
    /\ inbound.n < maxCommands
    /\ Len(inflight) < MaxInflight
    /\ inbound' = [n |-> inbound.n + 1, type |-> "set_breakpoint", id |-> backendId,
                   line |-> lineNumber]
    /\ inflight' = IF ~enabled \/ ~session
                   THEN inflight
                   ELSE Append(inflight,
                               Request("Debugger.setBreakpointByUrl", backendId,
                                       lineNumber - 1))
    /\ UNCHANGED <<lifecycle, initLog, instances, processListeners, installed, hooks,
                   originalUncaughtException, hostListener, pvars, tvars, session,
                   enabled, exceptionPauseEnabled, breakpoints, lastExceptionData,
                   sentExceptionFingerprints, localsCache, pendingCaptures,
                   rateLimitCount, rateLimitReset, now, v8Enabled,
                   v8PauseOnExceptions, v8Breakpoints, hostPaused, pause>>

OnRemoveBreakpointEvent(backendId, maxCommands) ==
    /\ lifecycle # "loaded"
    /\ inbound.n < maxCommands
    /\ Len(inflight) < MaxInflight
    /\ inbound' = [n |-> inbound.n + 1, type |-> "remove_breakpoint",
                   id |-> backendId, line |-> 0]
    /\ inflight' = RemoveRequests(inflight, backendId)
    /\ UNCHANGED <<lifecycle, initLog, instances, processListeners, installed, hooks,
                   originalUncaughtException, hostListener, pvars, tvars, session,
                   enabled, exceptionPauseEnabled, breakpoints, lastExceptionData,
                   sentExceptionFingerprints, localsCache, pendingCaptures,
                   rateLimitCount, rateLimitReset, now, v8Enabled,
                   v8PauseOnExceptions, v8Breakpoints, hostPaused, pause>>

(***************************************************************************)
(* RemovalSpec: breakpoint commands arriving as process events while the   *)
(* replies of the debugger are outstanding, against a debugger that        *)
(* acknowledges every removal, and the breakpoint pauses that follow.      *)
(***************************************************************************)
RemovalNext ==
    \/ init(TRUE, 1)
    \/ OnEnableReply(TRUE)
    \/ OnPauseOnExceptionsReply(TRUE)
    \/ \E c \in BreakpointCommands : OnSetBreakpointEvent(c[1], c[2], MaxCommands)
    \/ \E c \in BreakpointCommands : OnRemoveBreakpointEvent(c[1], MaxCommands)
    \/ \E ok \in BOOLEAN : OnSetBreakpointReply(ok)
    \/ OnRemoveBreakpointReply(TRUE)
    \/ \E hits \in SUBSET v8Breakpoints, scopes \in 0..MaxScopes :
          OnPausedOther(hits, scopes)
    \/ \E ok \in BOOLEAN : OnGetPropertiesReply(ok)

RemovalSpec == HarvestInit /\ [][RemovalNext]_vars

(***************************************************************************)
(* Breakpoint commands in which the collector uses the backend id b1 for   *)
(* two locations.                                                          *)
(***************************************************************************)
RepeatedCommands == {<<"b1", 11>>, <<"b1", 21>>, <<"b2", 31>>}

(***************************************************************************)
(* RepeatSpec: the breakpoint registry (with init and shutdown) under      *)
(* commands that repeat a backend id, against the debugger.                *)
(***************************************************************************)
RepeatNext ==
    \/ init(TRUE, 1)
    \/ shutdown
    \/ \E ok \in BOOLEAN : OnEnableReply(ok)
    \/ \E ok \in BOOLEAN : OnPauseOnExceptionsReply(ok)
    \/ \E c \in RepeatedCommands : setBreakpoint(c[1], c[2])
    \/ \E ok \in BOOLEAN : OnSetBreakpointReply(ok)
    \/ \E c \in RepeatedCommands : removeBreakpoint(c[1])
    \/ \E ok \in BOOLEAN : OnRemoveBreakpointReply(ok)

RepeatSpec == HarvestInit /\ [][RepeatNext]_vars

(***************************************************************************)
(* PipelineSpec: the exception hooks of the exception handler together     *)
(* with the exception pauses of the debugger session (with init and        *)
(* shutdown), before the collector has accepted the connection.            *)
(***************************************************************************)
PipelineNext ==
    \/ init(TRUE, 1)
    \/ shutdown
    \/ \E reason \in {"exception", "promiseRejection"}, site \in ThrowSites,
          scopes \in 0..MaxScopes : OnPausedException(reason, site, scopes, MaxPauses)
    \/ \E ok \in BOOLEAN : OnGetPropertiesReply(ok)
    \/ \E ok \in BOOLEAN : OnEnableReply(ok)
    \/ \E ok \in BOOLEAN : OnPauseOnExceptionsReply(ok)
    \/ \E site \in ThrowSites, sampled \in BOOLEAN :
          handleUncaughtException(site, sampled, MaxHookEvents)
    \/ \E site \in ThrowSites, sampled \in BOOLEAN :
          capture(site, sampled, MaxHookEvents)
    \/ OnHarvestTimeout
    \/ Tick

PipelineSpec == HarvestInit /\ [][PipelineNext]_vars

(***************************************************************************)
(* CacheSpec: exception pauses of a host that throws more distinct errors  *)
(* than the locals cache and the dedup set hold.  GenSite(i) is the error  *)
(* thrown at line i of a generated file; its harvest has no scope to       *)
(* fetch, so it completes in the turn of the pause event.  The host throws *)
(* as fast as the rate limiter admits: an error it has not thrown yet or,  *)
(* once the cache is full, the error whose key is first in the cache; the  *)
(* clock advances when the limiter's window is used up.                    *)
(***************************************************************************)
GenSite(i) ==
    [className |-> "Error", descType |-> "Error",
     description |-> <<"Error: e", <<"at gen (gen.js)", i>>>>,
     callFrames |-> <<i - 1>>, name |-> "Error", stackLines |-> <<i>>]

ThrownNext ==
    IF RateLimited(now)
    THEN {}
    ELSE {pause.id + 1}
             \cup { i \in 1..pause.id :
                        /\ Len(localsCache) = LocalsCacheLimit
                        /\ localsCache[1].key = extractStackKey(GenSite(i), now) }

CacheNext ==
    \/ init(TRUE, 1)
    \/ OnEnableReply(TRUE)
    \/ OnPauseOnExceptionsReply(TRUE)
    \/ \E i \in ThrownNext :
          OnPausedException("exception", GenSite(i), 0, MaxCachePauses)
    \/ RateLimited(now) /\ Elapse(TickMs, MaxCacheTicks * TickMs)

CacheSpec == HarvestInit /\ [][CacheNext]_vars

(***************************************************************************)
(* HookSpec: runs of the exception pipeline (hooks and capture) against    *)
(* the exception pauses of the debugger session, for errors that have a    *)
(* stack, one of which is thrown under the debugger, and a debugger that   *)
(* accepts the session.                                                    *)
(***************************************************************************)
HookSites == {site \in ThrowSites : site.description # <<>>}

PausedSites == {site \in HookSites : site.name = "TypeError"}

HookNext ==
    \/ init(TRUE, 1)
    \/ OnEnableReply(TRUE)
    \/ OnPauseOnExceptionsReply(TRUE)
    \/ \E site \in PausedSites, scopes \in 0..MaxScopes :
          OnPausedException("exception", site, scopes, MaxPauses)
    \/ \E ok \in BOOLEAN : OnGetPropertiesReply(ok)
    \/ \E site \in HookSites, sampled \in BOOLEAN :
          handleUncaughtException(site, sampled, MaxHookEvents)
    \/ \E site \in HookSites : capture(site, TRUE, MaxHookEvents)
    \/ OnHarvestTimeout
    \/ Tick

HookSpec == HarvestInit /\ [][HookNext]_vars

(***************************************************************************)
(* The host registers its own listener, process.on('uncaughtException',    *)
(* handler), before it initializes the agent; install finds it as          *)
(* process.listeners('uncaughtException')[0] (exception-handler.ts line    *)
(* 79).                                                                    *)
(***************************************************************************)
HostAddsListener ==
    /\ lifecycle = "loaded"
    /\ ~hostListener
    /\ hostListener' = TRUE
    /\ UNCHANGED <<lifecycle, initLog, instances, processListeners, installed,
                   hooks, originalUncaughtException, inbound, pvars, tvars, dvars>>

(***************************************************************************)
(* ListenerSpec: uncaughtException events of a host that may have its own  *)
(* listener, while the agent's hooks are installed.                        *)
(***************************************************************************)
ListenerNext ==
    \/ HostAddsListener
    \/ init(TRUE, 1)
    \/ shutdown
    \/ OnEnableReply(TRUE)
    \/ OnPauseOnExceptionsReply(TRUE)
    \/ \E site \in HookSites, sampled \in BOOLEAN :
          handleUncaughtException(site, sampled, MaxHookEvents)
    \/ Tick

ListenerSpec == HarvestInit /\ [][ListenerNext]_vars

(***************************************************************************)
(* The host registers its listener while the agent's hooks are installed:  *)
(* process.on appends it after the agent's listener, and install has       *)
(* already read process.listeners('uncaughtException')[0] (line 79).       *)
(***************************************************************************)
HostAddsListenerAfterInstall ==
    /\ installed
    /\ ~hostListener
    /\ hostListener' = TRUE
    /\ UNCHANGED <<lifecycle, initLog, instances, processListeners, installed,
                   hooks, originalUncaughtException, inbound, pvars, tvars, dvars>>

(***************************************************************************)
(* RoundTripSpec: install and uninstall of the hooks of a host that adds   *)
(* its own listener before or after the agent is initialized.              *)
(***************************************************************************)
RoundTripNext ==
    \/ HostAddsListener
    \/ HostAddsListenerAfterInstall
    \/ init(TRUE, 1)
    \/ shutdown
    \/ OnEnableReply(TRUE)
    \/ OnPauseOnExceptionsReply(TRUE)
    \/ \E site \in HookSites, sampled \in BOOLEAN :
          handleUncaughtException(site, sampled, MaxHookEvents)
    \/ Tick

RoundTripSpec == HarvestInit /\ [][RoundTripNext]_vars

(***************************************************************************)
(* InboundSpec: the transport receiving any frame from the collector.      *)
(***************************************************************************)
InboundNext ==
    \/ init(TRUE, 1)
    \/ shutdown
    \/ \E s \in SocketIds : OnOpen(s)
    \/ \E s \in SocketIds, frame \in InboundFrames : OnMessage(s, frame, MaxInbound)
    \/ \E s \in SocketIds : PeerClose(s)
    \/ \E s \in SocketIds : OnClose(s)
    \/ \E i \in 1..Len(reconnectTimers) : ReconnectTimerFires(i, MaxSockets)
    \/ sendException(MaxSends)

InboundSpec == Init /\ [][InboundNext]_vars

(***************************************************************************)
(* AgentConfig.maxStringLength (part_001 line 83): the option, the         *)
(* environment variable AIVORY_MAX_STRING_LENGTH, or 1000.                 *)
(***************************************************************************)
StringLimits == {100, 500, 1000}

(***************************************************************************)
(* InspectorManager.capturePropertyValue, case 'string' (lines             *)
(* 1012-1021), on a string of `original` characters: the length of the     *)
(* captured value and the isTruncated flag.                                *)
(***************************************************************************)
capturePropertyValue(original) ==
    IF original > StringCaptureLimit
    THEN [length |-> StringCaptureLimit, isTruncated |-> TRUE]
    ELSE [length |-> original, isTruncated |-> FALSE]

(***************************************************************************)
(* The first string property is harvested by an agent configured with     *)
(* maxStringLength = limit.                                                *)
(***************************************************************************)
CaptureString(limit, original) ==
    /\ captured = NoCapture
    /\ captured' = [n |-> 1, kind |-> "string", limit |-> limit, original |-> original,
                    length |-> capturePropertyValue(original).length,
                    isTruncated |-> capturePropertyValue(original).isTruncated]
    /\ UNCHANGED <<avars, hook, hostCalls, harvestTimes, tvars, dvars>>

(***************************************************************************)
(* StringSpec: string properties of every length up to MaxStringInput      *)
(* harvested under every configured limit.                                 *)
(***************************************************************************)
StringNext ==
    \E limit \in StringLimits, original \in 0..MaxStringInput :
        CaptureString(limit, original)

StringSpec == Init /\ [][StringNext]_vars

(***************************************************************************)
(* AgentConfig.maxCollectionSize (part_001 line 84) and                    *)
(* AgentConfig.maxCaptureDepth (part_001 line 82): the option, the         *)
(* environment variable, or the default (100, 10).                         *)
(***************************************************************************)
CollectionLimits == {50, 100, 200}

CaptureDepths == {1, 2, 3}

(***************************************************************************)
(* InspectorManager.capturePropertyValue, subtype 'array' (lines           *)
(* 1037-1050), with getArrayElements (lines 1096-1127): the number of      *)
(* elements attached to the capture of an array of `arrayLength` elements  *)
(* met at `depth`; `ok` tells whether Runtime.getProperties answered.      *)
(* arrayElements is set only when the list is not empty.                   *)
(***************************************************************************)
captureArrayElements(arrayLength, depth, maxCaptureDepth, ok) ==
    IF depth < maxCaptureDepth - 1 /\ arrayLength <= ArrayCaptureLimit /\ ok
    THEN arrayLength
    ELSE 0

(***************************************************************************)
(* The first array property is harvested by an agent configured with       *)
(* maxCollectionSize = limit.                                              *)
(***************************************************************************)
CaptureArray(limit, arrayLength, depth, maxCaptureDepth, ok) ==
    /\ captured = NoCapture
    /\ captured' = [n |-> 1, kind |-> "array", limit |-> limit,
                    original |-> arrayLength,
                    length |-> captureArrayElements(arrayLength, depth,
                                                    maxCaptureDepth, ok),
                    isTruncated |-> FALSE]
    /\ UNCHANGED <<avars, hook, hostCalls, harvestTimes, tvars, dvars>>

(***************************************************************************)
(* ArraySpec: arrays of every length up to MaxArrayInput harvested under   *)
(* every configured limit, at every depth up to MaxDepthInput.             *)
(***************************************************************************)
ArrayNext ==
    \E limit \in CollectionLimits, arrayLength \in 0..MaxArrayInput,
       depth \in 0..MaxDepthInput, maxCaptureDepth \in CaptureDepths,
       ok \in BOOLEAN :
        CaptureArray(limit, arrayLength, depth, maxCaptureDepth, ok)

ArraySpec == Init /\ [][ArrayNext]_vars

(***************************************************************************)
(* KeySpec: exception pauses for every kind of thrown value, each harvest  *)
(* completing in the turn of its pause, followed by the hook events of     *)
(* the same values.                                                        *)
(***************************************************************************)
KeyNext ==
    \/ init(TRUE, 1)
    \/ OnEnableReply(TRUE)
    \/ OnPauseOnExceptionsReply(TRUE)
    \/ \E site \in ThrowSites : OnPausedException("exception", site, 0, MaxPauses)
    \/ \E site \in ThrowSites, sampled \in BOOLEAN :
          handleUncaughtException(site, sampled, MaxHookEvents)
    \/ Tick

KeySpec == HarvestInit /\ [][KeyNext]_vars

(***************************************************************************)
(* The object graphs a harvest walks: the scope object holds the locals    *)
(* (object 1 and a primitive), and each of the objects 1 and 2 holds up to *)
(* two properties, each a primitive or a reference to object 1 or 2, so    *)
(* that objects can refer to themselves and to each other.  Arrays are     *)
(* containers under the same depth test (line 1045) as objects (line       *)
(* 1072).                                                                  *)
(***************************************************************************)
Primitive == 0

ScopeObject == 3

PropertyLists ==
    {<<>>} \cup { <<a>> : a \in {Primitive, 1, 2} }
           \cup { <<a, b>> : a \in {1, 2}, b \in {Primitive, 1, 2} }

ObjectGraphs ==
    { [o \in 1..3 |-> IF o = ScopeObject THEN <<1, Primitive>>
                      ELSE IF o = 1 THEN p1 ELSE p2] :
          p1 \in PropertyLists, p2 \in PropertyLists }

(***************************************************************************)
(* An expansion that has no depth test.                                    *)
(***************************************************************************)
NestedFetchAllowed_Always(depth, maxCaptureDepth) == TRUE

(***************************************************************************)
(* The depth tests of the harvest: getObjectProperties resolves at once    *)
(* when depth >= maxCaptureDepth (line 950), and capturePropertyValue      *)
(* expands a container only when depth < maxCaptureDepth - 1 (lines 1045,  *)
(* 1072).                                                                  *)
(***************************************************************************)
NestedFetchAllowed(depth, maxCaptureDepth) == depth < maxCaptureDepth - 1

RootFetchAllowed(depth, maxCaptureDepth) == ~(depth >= maxCaptureDepth)

(***************************************************************************)
(* captureCallFramesAsync calls getObjectProperties(scope.object.objectId, *)
(* 0) (line 921): the harvest of one scope of `graph` begins.  `stack` is  *)
(* the chain of awaited expansions: the object, the depth of its           *)
(* properties and the property to capture next.                            *)
(***************************************************************************)
StartGraphHarvest(graph, maxCaptureDepth) ==
    /\ captured = NoCapture
    /\ captured' = [n |-> 1, kind |-> "graph", limit |-> maxCaptureDepth,
                    graph |-> graph,
                    stack |-> IF RootFetchAllowed(0, maxCaptureDepth)
                              THEN <<[obj |-> ScopeObject, depth |-> 0, next |-> 1]>>
                              ELSE <<>>,
                    fetches |-> IF RootFetchAllowed(0, maxCaptureDepth) THEN 1 ELSE 0,
                    depth |-> 0]
    /\ UNCHANGED <<avars, hook, hostCalls, harvestTimes, tvars, dvars>>

(***************************************************************************)
(* One step of the loop over result.result in the callback of              *)
(* Runtime.getProperties (lines 966-977, 1115-1123): capturePropertyValue  *)
(* of the next property at the depth of its object, with the expansion of  *)
(* a container one level deeper (the debugger answers the fetch, `ok`, or  *)
(* fails it), or the end of the loop, which resolves the awaited promise.  *)
(***************************************************************************)
GraphHarvestStep(ok, maxFetches) ==
    /\ captured.kind = "graph"
    /\ captured.stack # <<>>
    /\ LET top == captured.stack[Len(captured.stack)]
           rest == SubSeq(captured.stack, 1, Len(captured.stack) - 1)
           props == captured.graph[top.obj]
       IN  IF top.next > Len(props)
           THEN /\ ok
                /\ captured' = [captured EXCEPT !.stack = rest]
           ELSE LET value == props[top.next]
                    after == Append(rest, [top EXCEPT !.next = @ + 1])
                    expands == /\ value # Primitive
                               /\ NestedFetchAllowed(top.depth, captured.limit)
                IN  /\ expands => captured.fetches < maxFetches
                    /\ ~expands => ok
                    /\ captured' =
                           [captured EXCEPT
                              !.depth = IF top.depth > @ THEN top.depth ELSE @,
                              !.fetches = IF expands THEN @ + 1 ELSE @,
                              !.stack = IF expands /\ ok
                                        THEN Append(after, [obj |-> value,
                                                            depth |-> top.depth + 1,
                                                            next |-> 1])
                                        ELSE after]
    /\ UNCHANGED <<avars, hook, hostCalls, harvestTimes, tvars, dvars>>

(***************************************************************************)
(* GraphSpec: harvests of one scope over every graph of ObjectGraphs under *)
(* every depth of CaptureDepths; the debugger answers every fetch.         *)
(***************************************************************************)
GraphNext ==
    \/ \E graph \in ObjectGraphs, maxCaptureDepth \in CaptureDepths :
          StartGraphHarvest(graph, maxCaptureDepth)
    \/ \E ok \in BOOLEAN : GraphHarvestStep(ok, MaxFetches)

GraphSpec ==
    /\ Init
    /\ [][GraphNext]_vars
    /\ WF_vars(\E ok \in BOOLEAN : GraphHarvestStep(ok, MaxFetches))

(***************************************************************************)
(* ChainSpec: uncaughtException events of a host that may have its own     *)
(* listener, against the exception pauses of the debugger session.         *)
(***************************************************************************)
ChainNext ==
    \/ HostAddsListener
    \/ init(TRUE, 1)
    \/ OnEnableReply(TRUE)
    \/ OnPauseOnExceptionsReply(TRUE)
    \/ \E site \in PausedSites, scopes \in 0..MaxScopes :
          OnPausedException("exception", site, scopes, MaxPauses)
    \/ \E ok \in BOOLEAN : OnGetPropertiesReply(ok)
    \/ \E site \in HookSites, sampled \in BOOLEAN :
          handleUncaughtException(site, sampled, MaxHookEvents)
    \/ OnHarvestTimeout
    \/ Tick

ChainSpec == HarvestInit /\ [][ChainNext]_vars

(***************************************************************************)
(* RateSpec: bursts of exception pauses against the rate limiter of        *)
(* handlePaused, with a clock that advances in steps shorter than the      *)
(* limiter's window.  Date.now() is positive when the first pause is       *)
(* handled, so the first pause opens a window.                             *)
(***************************************************************************)
RateNext ==
    \/ init(TRUE, 1)
    \/ OnEnableReply(TRUE)
    \/ OnPauseOnExceptionsReply(TRUE)
    \/ /\ now > 0
       /\ \E reason \in {"exception", "promiseRejection"}, site \in PausedSites :
             OnPausedException(reason, site, 0, MaxRatePauses)
    \/ Elapse(RateTickMs, MaxRateTicks * RateTickMs)

RateSpec == HarvestInit /\ [][RateNext]_vars

(***************************************************************************)
(* FairDebuggerSpec: DebuggerSpec in which every request posted to the     *)
(* debugger eventually gets its reply.                                     *)
(***************************************************************************)
FairDebuggerSpec ==
    /\ DebuggerSpec
    /\ WF_vars(\E ok \in BOOLEAN : OnGetPropertiesReply(ok))
    /\ WF_vars(\E ok \in BOOLEAN : OnEnableReply(ok))
    /\ WF_vars(\E ok \in BOOLEAN : OnPauseOnExceptionsReply(ok))
    /\ WF_vars(\E ok \in BOOLEAN : OnSetBreakpointReply(ok))
    /\ WF_vars(\E ok \in BOOLEAN : OnRemoveBreakpointReply(ok))

(***************************************************************************)
(* ============================ Claims =================================== *)
(***************************************************************************)
IsExceptionPause(p) == p.reason \in {"exception", "promiseRejection"}

CacheHolds(cache, key, locals) ==
    \E i \in 1..Len(cache) : cache[i].key = key /\ cache[i].locals = locals

(***************************************************************************)
(* C1: once the handling of an exception / promise-rejection pause has     *)
(* finished, exactly one Debugger.resume has been issued for it.           *)
(***************************************************************************)
C1_ExactlyOneResume ==
    (IsExceptionPause(pause) /\ pause.phase = "done") => pause.resumes = 1

(***************************************************************************)
(* C2: a step that issues the resume of an exception pause that is not     *)
(* rate-limited ends with the harvest finished, its result in the locals   *)
(* cache under the stack key and the pending entry of that key removed;    *)
(* and a pending entry exists only for the pause being harvested.          *)
(***************************************************************************)
C2_ResumeAfterHarvest ==
    /\ [][(/\ pause'.resumes > 0
           /\ (pause'.id # pause.id \/ pause.resumes = 0)
           /\ IsExceptionPause(pause')
           /\ ~pause'.limited)
          => (/\ pause'.phase = "done"
              /\ pause'.scopesLeft = 0
              /\ CacheHolds(localsCache', pause'.key,
                            [pause |-> pause'.id, scopes |-> pause'.scopesOk])
              /\ pause'.key \notin pendingCaptures')]_vars
    /\ [](\A key \in pendingCaptures :
             /\ IsExceptionPause(pause)
             /\ pause.phase = "harvesting"
             /\ pause.key = key)

C2_Witness ==
    /\ pause.reason = "exception"
    /\ ~pause.limited
    /\ pause.phase = "done"
    /\ pause.resumes = 1
    /\ pause.scopesOk = 1
    /\ pause.id = 2
    /\ pendingCaptures = {}
    /\ CacheHolds(localsCache, pause.key, [pause |-> 2, scopes |-> 1])

(***************************************************************************)
(* C3: every pause is eventually followed by a resume (given that every    *)
(* request to the debugger is answered).                                   *)
(***************************************************************************)
C3_PauseLeadsToResume ==
    \A id \in 1..MaxPauses :
        (pause.id = id) ~> (pause.id = id /\ pause.resumes >= 1)

(***************************************************************************)
(* C4: a send() step writes the message to the socket, and leaves the      *)
(* buffer alone, if and only if the transport is Registered; otherwise it  *)
(* appends the message to the buffer and writes nothing.                   *)
(***************************************************************************)
C4_SendAdmitsIffRegistered ==
    [][sendSeq' = sendSeq + 1 =>
         IF Registered
         THEN /\ Len(wire') = Len(wire) + 1
              /\ SubSeq(wire', 1, Len(wire)) = wire
              /\ wire'[Len(wire')].sock = ws
              /\ wire'[Len(wire')].msg.seq = sendSeq'
              /\ messageQueue' = messageQueue
         ELSE /\ wire' = wire
              /\ Len(messageQueue') > 0
              /\ messageQueue'[Len(messageQueue')].seq = sendSeq'
              /\ \E msg \in {messageQueue'[Len(messageQueue')]} :
                    \/ messageQueue' = Append(messageQueue, msg)
                    \/ messageQueue' = Tail(Append(messageQueue, msg))]_vars

C4_Witness ==
    /\ sentVia = "socket"
    /\ Registered
    /\ messageQueue = <<>>
    /\ Len(wire) >= 3
    /\ wire[Len(wire)].msg.seq = sendSeq
    /\ wire[Len(wire) - 1].msg.seq = sendSeq - 1

(***************************************************************************)
(* C5: the buffer never holds more than 100 messages, and after n          *)
(* messages were pushed since it was last drained it holds exactly the     *)
(* last min(n, 100) messages sent, in the order they were sent.            *)
(***************************************************************************)
C5_QueueBoundedFifo ==
    /\ Len(messageQueue) <= 100
    /\ Len(messageQueue) = Min(queuedCount, 100)
    /\ \A i \in 1..Len(messageQueue) :
          messageQueue[i].seq = sendSeq - Len(messageQueue) + i

C5_Witness ==
    /\ queuedCount = 101
    /\ Len(messageQueue) = 100
    /\ messageQueue[1].seq = 2
    /\ messageQueue[100].seq = 101

(***************************************************************************)
(* C6: the step that makes the transport Registered writes the buffered    *)
(* messages to the socket in enqueue order and empties the buffer, so no   *)
(* message is buffered while the transport is Registered.                  *)
(***************************************************************************)
C6_DrainFifoOnRegister ==
    /\ [][(~Registered /\ Registered') =>
            /\ wire' = wire \o [i \in 1..Len(messageQueue) |->
                                   [sock |-> ws', msg |-> messageQueue[i]]]
            /\ messageQueue' = <<>>]_vars
    /\ [](Registered => messageQueue = <<>>)

C6_Witness ==
    /\ Registered
    /\ sentVia = "queue"
    /\ sendSeq = 2
    /\ [i \in 1..Len(wire) |-> wire[i].msg.seq] = <<0, 1, 2>>

(***************************************************************************)
(* C7: the messages other than register written to the sockets are a       *)
(* subsequence of the send calls: their send numbers strictly increase     *)
(* along the wire.                                                         *)
(***************************************************************************)
C7_WireIsSubsequenceOfSends ==
    \A i, j \in 1..Len(wire) :
        (i < j /\ wire[i].msg.type # "register" /\ wire[j].msg.type # "register")
            => /\ wire[i].msg.seq < wire[j].msg.seq
               /\ wire[i].msg.seq >= 1
               /\ wire[j].msg.seq <= sendSeq

C7_Witness ==
    \E i, j \in 1..Len(wire) :
        /\ i < j
        /\ wire[i].msg.type # "register" /\ wire[j].msg.type # "register"
        /\ wire[i].sock = 1 /\ wire[j].sock = 2
        /\ sentVia = "queue"

(***************************************************************************)
(* C8: on every socket the first message written is register, an open      *)
(* socket has had its register written, and nothing but register is        *)
(* written on a socket before its `registered` reply has been received.    *)
(***************************************************************************)
C8_RegisterFirst ==
    \A s \in SocketIds :
        LET onSocket == SelectSeq(wire, LAMBDA w : w.sock = s)
        IN  /\ Len(onSocket) > 0 => onSocket[1].msg.type = "register"
            /\ sockets[s] = "OPEN" => Len(onSocket) > 0
            /\ s \notin registeredOn =>
                   \A i \in 1..Len(onSocket) : onSocket[i].msg.type = "register"

C8_Witness ==
    /\ 2 \in registeredOn
    /\ \E i \in 1..Len(wire) : wire[i].sock = 2 /\ wire[i].msg.type = "exception"
    /\ \E i \in 1..Len(wire) : wire[i].sock = 2 /\ wire[i].msg.type = "heartbeat"

(***************************************************************************)
(* C9: the step that handles a credential failure leaves the transport     *)
(* Disconnected, and from then on no reconnect is scheduled and no socket  *)
(* is opened.                                                              *)
(***************************************************************************)
C9_AuthFailureIsFinal ==
    /\ [][(maxReconnectAttempts # 0 /\ maxReconnectAttempts' = 0) =>
            (ws' = 0 /\ ~connected' /\ ~authenticated' /\ ~heartbeatInterval')]_vars
    /\ [][maxReconnectAttempts = 0 =>
            /\ maxReconnectAttempts' = 0
            /\ reconnectTimers' = reconnectTimers
            /\ Len(sockets') = Len(sockets)]_vars

C9_Witness ==
    /\ maxReconnectAttempts = 0
    /\ Len(sockets) = 2
    /\ sockets[2] = "CLOSED"
    /\ reconnectTimers = <<>>

(***************************************************************************)
(* C10: in every state, registration acknowledged implies a socket is      *)
(* present and connected.                                                  *)
(***************************************************************************)
C10_AuthenticatedImpliesConnected ==
    authenticated => (ws # 0 /\ connected)

(***************************************************************************)
(* C11: the reconnect attempt counter is reset to 0 only by a step that    *)
(* leaves the transport Registered.                                        *)
(***************************************************************************)
C11_ResetOnlyWhenRegistered ==
    [][(reconnectAttempts # 0 /\ reconnectAttempts' = 0) => Registered']_vars

(***************************************************************************)
(* C12: every step that schedules a reconnect raises the attempt counter   *)
(* by exactly one, to some k in 1..10, and the timer it sets has the       *)
(* delay min(1000 * 2^(k-1), 60000) ms, written out here for k = 1..10.    *)
(***************************************************************************)
C12_BackoffDelays ==
    [][LET BackoffTable ==
               <<1000, 2000, 4000, 8000, 16000, 32000, 60000, 60000, 60000, 60000>>
       IN  (reconnectAttempts' # reconnectAttempts /\ reconnectAttempts' # 0)
               => /\ reconnectAttempts' = reconnectAttempts + 1
                  /\ reconnectAttempts' \in 1..10
                  /\ Len(reconnectTimers') > 0
                  /\ reconnectTimers'[Len(reconnectTimers')]
                        = BackoffTable[reconnectAttempts']]_vars

C12_Witness ==
    /\ reconnectAttempts = 10
    /\ reconnectTimers = <<60000>>

(***************************************************************************)
(* C13: in every state the heartbeat timer is active only while the        *)
(* registration is acknowledged on a present, connected socket.            *)
(***************************************************************************)
C13_HeartbeatOnlyWhileRegistered ==
    heartbeatInterval => (authenticated /\ connected /\ ws # 0)

(***************************************************************************)
(* C14: once shutdown() has run, no step schedules a reconnect and no      *)
(* step opens a socket.                                                    *)
(***************************************************************************)
C14_NoReconnectAfterShutdown ==
    [][lifecycle = "stopped" =>
         /\ reconnectAttempts' # reconnectAttempts + 1
         /\ Len(sockets') = Len(sockets)]_vars

(***************************************************************************)
(* C15: init is idempotent: a call of init while the agent is initialized  *)
(* constructs no second transport, debugger session or exception handler,  *)
(* installs no further hooks or shutdown listeners, and leaves every       *)
(* field of the agent as it was.                                           *)
(***************************************************************************)
C15_InitIdempotent ==
    [][(Len(initLog') > Len(initLog) /\ lifecycle = "running")
          => UNCHANGED <<lifecycle, instances, processListeners, installed, hooks,
                           originalUncaughtException, hostListener, pvars,
                         inbound, tvars, dvars>>]_vars

C15_Witness ==
    /\ Len(initLog) >= 2
    /\ initLog[Len(initLog)] = "ignored"
    /\ Registered
    /\ instances = 1
    /\ hooks = 1
    /\ processListeners = 1

(***************************************************************************)
(* C16: every `set_breakpoint` command the transport receives while the    *)
(* debugger session is enabled makes the session request, in the handling  *)
(* of that message, a breakpoint by URL at the 0-indexed line              *)
(* line_number - 1 for the command's id; every `remove_breakpoint` for a   *)
(* registered breakpoint likewise makes it request the removal.            *)
(***************************************************************************)
C16_CommandReachesDebugger ==
    [][(inbound'.n = inbound.n + 1 /\ enabled /\ session)
          => IF inbound'.type = "set_breakpoint"
             THEN inflight' = Append(inflight,
                                     Request("Debugger.setBreakpointByUrl",
                                             inbound'.id, inbound'.line - 1))
             ELSE inflight' = RemoveRequests(inflight, inbound'.id)]_vars

(***************************************************************************)
(* C17: a pause for a reason other than an exception whose hit ids         *)
(* include the id of a registered breakpoint hands exactly one             *)
(* `breakpoint_hit` message, with the backend id of a matching registry    *)
(* entry and the harvested data, to the transport, in the step that ends   *)
(* the harvest and not after the resume; a pause matching no registered    *)
(* breakpoint hands nothing to the transport and is resumed in the step    *)
(* that handles it.  Nothing else hands a message to the transport in      *)
(* BreakpointSpec, so every send is the one message of a finished          *)
(* breakpoint pause.                                                       *)
(***************************************************************************)
C17_BreakpointHitBeforeResume ==
    [][LET started == pause'.id = pause.id + 1
           finished == pause'.phase = "done" /\ (started \/ pause.phase = "harvesting")
           matches == {i \in 1..Len(breakpoints) : breakpoints[i].id \in pause'.hits}
           handed == IF sentVia' = "socket"
                     THEN wire'[Len(wire')].msg
                     ELSE messageQueue'[Len(messageQueue')]
       IN  /\ (started /\ matches = {})
                 => /\ sendSeq' = sendSeq
                    /\ pause'.resumes = 1
                    /\ finished
           /\ (started /\ matches # {})
                 => pause'.hitBackendId \in {breakpoints[i].backendId : i \in matches}
           /\ (pause'.hitBackendId # "" /\ pause'.phase = "harvesting")
                 => /\ sendSeq' = sendSeq
                    /\ pause'.resumes = 0
           /\ (pause'.hitBackendId # "" /\ finished)
                 => /\ sendSeq' = sendSeq + 1
                    /\ handed.type = "breakpoint_hit"
                    /\ handed.payload.breakpoint_id = pause'.hitBackendId
                    /\ handed.payload.locals
                          = [pause |-> pause'.id, scopes |-> pause'.scopesOk]
                    /\ pause'.resumes <= 1
           /\ sendSeq' # sendSeq => (pause'.hitBackendId # "" /\ finished)]_vars

C17_Witness ==
    /\ pause.id = 2
    /\ sendSeq = 1
    /\ pause.phase = "done"
    /\ pause.hits = {BreakpointIdAt(20)}
    /\ pause.hitBackendId = "b2"
    /\ pause.scopesOk = 1
    /\ pause.resumes = 1
    /\ Len(breakpoints) = 2
    /\ sentVia = "socket"
    /\ wire[Len(wire)].msg.payload.breakpoint_id = "b2"

(***************************************************************************)
(* C18: removeBreakpoint for a registered breakpoint deletes the registry  *)
(* entry whatever the debugger answers: once the callback of its           *)
(* Debugger.removeBreakpoint request has run, with or without an error,    *)
(* the registry has no entry for that backend id.                          *)
(***************************************************************************)
C18_RemoveDeletesRegardless ==
    [][(/\ Len(inflight) > 0
        /\ Head(inflight).method = "Debugger.removeBreakpoint"
        /\ inflight' = Tail(inflight))
          => ~RegistryHas(breakpoints', Head(inflight).backendId)]_vars

(***************************************************************************)
(* C19: after disable() the breakpoint registry is empty.                  *)
(***************************************************************************)
C19_RegistryEmptyAfterDisable ==
    (lifecycle = "stopped" /\ ~session /\ ~enabled) => breakpoints = <<>>

(***************************************************************************)
(* C20: the exception pipeline checks the dedup set before it emits: an    *)
(* `exception` message is handed to the transport only for an exception    *)
(* whose dedup key (exception type and first three frame line numbers) is  *)
(* not in the dedup set.                                                   *)
(***************************************************************************)
C20_DedupSuppressesEmit ==
    [][LET handed == IF sentVia' = "socket"
                     THEN wire'[Len(wire')].msg
                     ELSE messageQueue'[Len(messageQueue')]
       IN  (sendSeq' = sendSeq + 1 /\ handed.type = "exception")
              => ~wasExceptionSentByInspector(handed.payload.exceptionType,
                                              handed.payload.stackTrace)]_vars

C23_TimeoutHandsEmptyLocals ==
    [][LET handed == IF sentVia' = "socket"
                     THEN wire'[Len(wire')].msg
                     ELSE messageQueue'[Len(messageQueue')]
       IN  ( /\ hook.phase = "awaiting"
             /\ hook'.phase = "sent"
             /\ pause' = pause )
             => /\ sendSeq' = sendSeq + 1
                /\ handed.type = "exception"
                /\ handed.payload.locals.scopes = 0]_vars

(***************************************************************************)
(* C24: a cached harvest is consumed at most once: when the lookup of a    *)
(* run of the pipeline hits, no entry under its stack key is left in the   *)
(* locals cache; and a run that finds no entry under its key gets nothing  *)
(* from the lookup, its capture keeps what createCapture attached.         *)
(***************************************************************************)
C24_CachedHarvestConsumedOnce ==
    [][LET handed == IF sentVia' = "socket"
                     THEN wire'[Len(wire')].msg
                     ELSE messageQueue'[Len(messageQueue')]
           started == hook'.n = hook.n + 1
           ended == hook'.phase = "sent" /\ (started \/ hook.phase = "awaiting")
           entries == { i \in 1..Len(localsCache) : localsCache[i].key = hook'.key }
           hits == { i \in entries : now - localsCache[i].timestamp < CacheMaxAge }
       IN  /\ (ended /\ (hits # {} \/ pause' # pause))
                 => \A i \in 1..Len(localsCache') : localsCache'[i].key # hook'.key
           /\ (ended /\ started /\ entries = {})
                 => /\ localsCache' = localsCache
                    /\ handed.payload.locals = IF exceptionPauseEnabled
                                               THEN lastExceptionData
                                               ELSE NoLocals]_vars

C24_Witness ==
    /\ pause.id = 1
    /\ pause.phase = "done"
    /\ pause.scopesOk = MaxScopes
    /\ hook.n = 2
    /\ hook.phase = "sent"
    /\ hook.key = pause.key
    /\ hook.locals = NoLocals
    /\ now < CacheMaxAge
    /\ sendSeq = 2
    /\ localsCache = <<>>

(***************************************************************************)
(* C25: after N harvest insertions the locals cache holds at most          *)
(* min(N, 100) entries, and an entry that an insertion removes for the     *)
(* cap (it has not reached cacheMaxAge) is the oldest one: no entry of the *)
(* cache has a smaller timestamp, also when a key already present has      *)
(* been harvested again.                                                   *)
(***************************************************************************)
C25_CacheBoundedOldestEvicted ==
    [][LET inserted == Len(harvestTimes') = Len(harvestTimes) + 1
           evicted == { i \in 1..Len(localsCache) :
                           /\ ~(now - localsCache[i].timestamp > CacheMaxAge)
                           /\ \A k \in 1..Len(localsCache') :
                                  localsCache'[k].key # localsCache[i].key }
       IN  inserted =>
             /\ Len(localsCache') <= Min(Len(harvestTimes'), LocalsCacheLimit)
             /\ \A i \in evicted : \A k \in 1..Len(localsCache) :
                    localsCache[i].timestamp <= localsCache[k].timestamp]_vars

(***************************************************************************)
(* C26: between pause handlings the dedup set never holds more than 100    *)
(* fingerprints, and a fingerprint that leaves the set is the one that was *)
(* inserted earliest of those in the set (the host of CacheSpec throws its *)
(* errors in the order of their line numbers, so that is the fingerprint   *)
(* with the smallest line); the fingerprint of the handled pause is in the *)
(* set afterwards.                                                         *)
(***************************************************************************)
C26_DedupBoundedFifo ==
    [][LET before == { sentExceptionFingerprints[k] :
                           k \in 1..Len(sentExceptionFingerprints) }
           after == { sentExceptionFingerprints'[k] :
                          k \in 1..Len(sentExceptionFingerprints') }
       IN  /\ Len(sentExceptionFingerprints') <= DedupLimit
           /\ Cardinality(after) = Len(sentExceptionFingerprints')
           /\ \A fp \in before \ after :
                 /\ Cardinality(before) = DedupLimit
                 /\ before \ after = {fp}
                 /\ \A other \in before : fp[2] <= other[2]
           /\ (pause'.id = pause.id + 1 /\ pause'.phase = "done" /\ ~pause'.limited)
                 => pause'.fingerprint \in after]_vars

C26_Witness ==
    /\ Len(sentExceptionFingerprints) = DedupLimit
    /\ pause.id = DedupLimit + 2
    /\ pause.fingerprint = sentExceptionFingerprints[DedupLimit]
    /\ sentExceptionFingerprints[1] = <<"Error", 3>>

(***************************************************************************)
(* C27: in every rolling window of 1 s at most 50 exception or promise     *)
(* rejection pauses are harvested (the 51st harvest after any harvest      *)
(* starts at least 1000 ms later), and a pause past the limit is resumed   *)
(* at once without registering a pending harvest, caching locals or        *)
(* touching the dedup set.                                                 *)
(***************************************************************************)
C27_RollingWindowLimit ==
    [][/\ \A i \in 1..(Len(harvestTimes') - RateLimitMax) :
             harvestTimes'[i + RateLimitMax] - harvestTimes'[i] >= RateLimitWindow
       /\ (pause'.id = pause.id + 1 /\ pause'.limited)
             => /\ pause'.phase = "done"
                /\ pause'.resumes = 1
                /\ ~hostPaused'
                /\ UNCHANGED <<pendingCaptures, localsCache, lastExceptionData,
                               sentExceptionFingerprints, harvestTimes>>]_vars

(***************************************************************************)
(* C28: a listener for uncaught exceptions that the host registered before *)
(* the agent installed its hooks is invoked exactly once for every         *)
(* uncaughtException event that fires while the hooks are installed,       *)
(* whether or not the event passes sampling.                               *)
(***************************************************************************)
C28_HostListenerInvokedOnce ==
    [][( /\ hook'.n = hook.n + 1
         /\ hook'.kind = "uncaughtException"
         /\ installed
         /\ originalUncaughtException )
         => hostCalls' = 1]_vars

C30_StringTruncatedToLimit ==
    captured.n > 0
        => /\ captured.length <= captured.limit
           /\ captured.isTruncated <=> (captured.original > captured.limit)

(***************************************************************************)
(* C31: for every configured max_collection_size a captured array has      *)
(* array_elements only when its array_length is at most                    *)
(* max_collection_size; a longer array is captured without elements.       *)
(***************************************************************************)
C31_ArrayElementsWithinLimit ==
    (captured.kind = "array" /\ captured.length > 0)
        => captured.original <= captured.limit

(***************************************************************************)
(* C32: for an error whose debugger description is its stack text, the     *)
(* stack key computed at pause time equals the key computed by the lookup  *)
(* of the exception pipeline, so the lookup of a hook event for the error  *)
(* of the last completed pause finds the entry cached for it; a cache      *)
(* entry stored under `unknown-<now>` (no description) is found by no      *)
(* lookup.                                                                 *)
(***************************************************************************)
C32_StackKeysAgree ==
    [][LET handed == IF sentVia' = "socket"
                     THEN wire'[Len(wire')].msg
                     ELSE messageQueue'[Len(messageQueue')]
           lookup == hook'.n = hook.n + 1 /\ hook'.phase = "sent"
           siteOf == CHOOSE site \in ThrowSites : site.stackLines = hook'.stackTrace
       IN  /\ \A site \in HookSites :
                 extractStackKey(site, now) = lookupStackKey(site.description)
           /\ lookup =>
                 \A i \in 1..Len(localsCache) :
                     /\ ( /\ siteOf.description # <<>>
                          /\ localsCache[i].key = extractStackKey(siteOf, now)
                          /\ now - localsCache[i].timestamp < CacheMaxAge )
                          => /\ handed.payload.locals = localsCache[i].locals
                             /\ \A k \in 1..Len(localsCache') :
                                   localsCache'[k].key # localsCache[i].key
                     /\ Head(localsCache[i].key) = "unknown"
                          => \E k \in 1..Len(localsCache') :
                                localsCache'[k] = localsCache[i]]_vars

C32_Witness ==
    /\ pause.id = 2
    /\ pause.phase = "done"
    /\ hook.phase = "sent"
    /\ hook.exceptionType = "TypeError"
    /\ hook.locals.pause = 1
    /\ \E i \in 1..Len(localsCache) : Head(localsCache[i].key) = "unknown"

(***************************************************************************)
(* C33: a backend id enters the breakpoint registry (or gets another       *)
(* session id) only in the callback of its own install request, with the   *)
(* session id the debugger acknowledged; a failed install request, and a   *)
(* set_breakpoint while the session is not enabled, leave the registry     *)
(* unchanged.                                                              *)
(***************************************************************************)
C33_RegisteredOnlyWhenAcknowledged ==
    [][LET answered == /\ Len(inflight) > 0
                       /\ Head(inflight).method = "Debugger.setBreakpointByUrl"
                       /\ inflight' = Tail(inflight)
           added == { i \in 1..Len(breakpoints') :
                        \A k \in 1..Len(breakpoints) :
                            breakpoints[k] # breakpoints'[i] }
       IN  /\ \A i \in added :
                 /\ answered
                 /\ breakpoints'[i].backendId = Head(inflight).backendId
                 /\ breakpoints'[i].id = BreakpointIdAt(Head(inflight).arg)
                 /\ breakpoints'[i].id \in v8Breakpoints' \ v8Breakpoints
           /\ (answered /\ v8Breakpoints' = v8Breakpoints)
                 => breakpoints' = breakpoints
           /\ (answered /\ ~(enabled /\ session)) => breakpoints' = breakpoints]_vars

C33_Witness ==
    /\ Len(breakpoints) = 1
    /\ breakpoints[1].backendId = "b2"
    /\ breakpoints[1].id = BreakpointIdAt(20)
    /\ breakpoints[1].id \in v8Breakpoints
    /\ inflight = <<>>
    /\ enabled

(***************************************************************************)
(* C34: a harvest over any object graph, cyclic ones included, ends once   *)
(* the debugger has answered every fetch: values are captured at depths    *)
(* 0, 1, ... counted from the scope root, a container is expanded only at  *)
(* a depth below max_capture_depth - 1, so every awaited expansion and     *)
(* every captured value lies at a depth below max_capture_depth, and the   *)
(* chain of awaited expansions empties.                                    *)
(***************************************************************************)
C34_HarvestTerminatesWithinDepth ==
    /\ [](captured.kind = "graph" =>
            /\ captured.depth < captured.limit
            /\ Len(captured.stack) <= captured.limit
            /\ \A i \in 1..Len(captured.stack) : captured.stack[i].depth = i - 1)
    /\ (captured.kind = "graph") ~> (captured.kind = "graph" /\ captured.stack = <<>>)

C34_Witness ==
    /\ captured.kind = "graph"
    /\ captured.stack = <<>>
    /\ captured.limit = 3
    /\ captured.graph[1] = <<1, 2>>
    /\ captured.graph[2] = <<1, 2>>
    /\ captured.depth = 2
    /\ captured.fetches = 4

(***************************************************************************)
(* C35: for an uncaught exception the capture is handed to the transport   *)
(* before the agent chains to the pre-existing handler or, without one,    *)
(* schedules the exit of the host.  The agent's listener chains (the calls *)
(* counted in hostCalls) or schedules the exit in the turn of the event,   *)
(* so the capture of an event that passes sampling has been handed over    *)
(* when that turn ends.                                                    *)
(***************************************************************************)
C35_CaptureHandedBeforeChain ==
    [][( /\ hook'.n = hook.n + 1
         /\ hook'.kind = "uncaughtException"
         /\ hook'.phase # "skipped" )
         => /\ hook'.phase = "sent"
            /\ sendSeq' = sendSeq + 1]_vars

(***************************************************************************)
(* C36: install followed by uninstall is a round trip on the host's        *)
(* exception listeners: uninstall removes the agent's listeners and leaves *)
(* every listener of the host, registered before or after install, in      *)
(* place.                                                                  *)
(***************************************************************************)
C36_UninstallKeepsHostListeners ==
    [][(installed /\ ~installed')
          => /\ hooks' = 0
             /\ hostListener' = hostListener]_vars

(***************************************************************************)
(* C37: the locals of every exception capture handed to the transport are  *)
(* empty, or they are the locals of a harvest taken for the stack key of   *)
(* the captured exception: the harvest that completes in this turn for     *)
(* that key, or an entry cached under that key less than cacheMaxAge ago.  *)
(***************************************************************************)
C37_LocalsOfSameStackKey ==
    [][LET handed == IF sentVia' = "socket"
                     THEN wire'[Len(wire')].msg
                     ELSE messageQueue'[Len(messageQueue')]
           locals == handed.payload.locals
       IN  ( /\ hook'.phase = "sent"
             /\ hook.phase # "sent" \/ hook'.n = hook.n + 1
             /\ sendSeq' = sendSeq + 1
             /\ locals.scopes > 0 )
             => \/ /\ pause'.id = locals.pause
                   /\ pause'.phase = "done"
                   /\ pause'.key = hook'.key
                   /\ locals.scopes = pause'.scopesOk
                \/ \E i \in 1..Len(localsCache) :
                      /\ localsCache[i].locals = locals
                      /\ localsCache[i].key = hook'.key
                      /\ now - localsCache[i].timestamp < CacheMaxAge]_vars

(***************************************************************************)
(* C38: when the last breakpoint command processed is remove_breakpoint(b) *)
(* and every reply of the debugger has been delivered, b is not in the     *)
(* registry, and no pause that follows is reported as a hit of b; also     *)
(* when the removal was processed before the acknowledgement of b's        *)
(* install arrived.                                                        *)
(***************************************************************************)
C38_RemovedAfterReplies ==
    /\ []( ( /\ inbound.type = "remove_breakpoint"
              /\ inflight = <<>> )
              => ~RegistryHas(breakpoints, inbound.id) )
    /\ [][( /\ inbound.type = "remove_breakpoint"
            /\ inflight = <<>>
            /\ pause'.id = pause.id + 1 )
            => pause'.hitBackendId # inbound.id]_vars

(***************************************************************************)
(* C39: every breakpoint the debugger holds at the agent's request is      *)
(* recorded in the registry under some backend id (until the removal the   *)
(* agent asked for is acknowledged, which takes it from both), also when   *)
(* set_breakpoint arrives twice with the same backend id.                  *)
(***************************************************************************)
C39_InstalledAreRegistered ==
    \A id \in v8Breakpoints :
        \E i \in 1..Len(breakpoints) : breakpoints[i].id = id

(***************************************************************************)
(* C40: every message that leaves the outbound buffer is written to the    *)
(* socket in that step, or is the head of a full buffer evicted by the     *)
(* send that overflows it; in particular the drain of a `registered`       *)
(* reply discards nothing, also when the reply is delivered after          *)
(* disconnect() or on a socket that is no longer open.                     *)
(***************************************************************************)
C40_BufferedMessagesWrittenOrEvicted ==
    [][\A i \in 1..Len(messageQueue) :
          (\A k \in 1..Len(messageQueue') : messageQueue'[k] # messageQueue[i])
             => \/ \E k \in (Len(wire) + 1)..Len(wire') :
                      wire'[k].msg = messageQueue[i]
                \/ /\ i = 1
                   /\ Len(messageQueue) = MessageQueueLimit
                   /\ sendSeq' = sendSeq + 1
                   /\ sentVia' = "queue"]_vars

====
